---- MODULE Spec2Model ----
(***************************************************************************)
(* BVH builder, flattening, stack traversal and pick protocol of the       *)
(* WebGPU playground (src/utils/cpuBVH.ts, src/shaders/assignment.wgsl,    *)
(* src/shaders/raytracing.wgsl, src/pages/ImSynthesis/Assignment.tsx).     *)
(*                                                                         *)
(* Geometry lives on a small integer grid.  Every quantity the code        *)
(* computes in f32 is computed here exactly: a centroid is carried as 3x   *)
(* its value, a parametric distance as a fraction num/den.  On this grid a *)
(* value is below the 1e-5 epsilons of the shaders exactly when it is <= 0.*)
(* Indices are 0-based as in the code; Sequences are 1-based, so element i *)
(* of an array a is a[i + 1].                                              *)
(***************************************************************************)
EXTENDS Integers, Sequences, FiniteSets, TLC

\* ------------------------------------------------------------------------
\* Bounds of the model
\* ------------------------------------------------------------------------
MaxTris == 3
MaxCalls == 2
MaxFrames == 1
MaxChain == 54
MaxPile == 4
MaxSceneLights == 6
MaxSceneMaterials == 18
MaxRenders == 1
MaxFpsResults == 1
MaxEffectRuns == 3
MaxCameraSteps == 1
MaxDebugDepth == 3
MaxObjects == 2

\* ------------------------------------------------------------------------
\* Program constants
\* ------------------------------------------------------------------------
DepthCap == 25
StackCapacity == 64
nb_buckets == 12
BestCostInit == 1000000000

\* ------------------------------------------------------------------------
\* Scene inputs: the merged vertex buffers (positions, objectIds) and the
\* triangles a scene may be made of (index triples into the vertex buffer).
\* ------------------------------------------------------------------------
\* Vertices 0..11 carry the triangles of TrianglePool; vertices 12.. lie on
\* the x axis at unit spacing and carry the zero-area triangles of the
\* degenerate scenes (ChainScene, PileScene).
VertexPositions ==
  << <<0, 0, 2>>, <<4, 0, 2>>, <<0, 4, 2>>,
     <<0, 0, 4>>, <<4, 0, 4>>, <<0, 4, 4>>,
     <<4, 4, 6>>, <<8, 4, 6>>, <<4, 8, 6>>,
     <<0, 0, 1>>, <<0, 4, 1>>, <<4, 0, 3>> >>
  \o [ k \in 1..MaxChain |-> <<k - 1, 0, 0>> ]

VertexObjectIds ==
  << 0, 0, 0, 1, 1, 1, 2, 2, 2, 3, 3, 3 >> \o [ k \in 1..MaxChain |-> 0 ]

TrianglePool ==
  { <<0, 2, 1>>, <<0, 1, 2>>, <<3, 5, 4>>, <<6, 8, 7>>, <<9, 10, 11>> }

Scenes ==
  UNION { { s \in [1..k -> TrianglePool] : \A i, j \in 1..k : s[i] = s[j] => i = j }
          : k \in 1..MaxTris }

\* scenes of the ray queries: the empty scene and the scenes over TrianglePool
QueryScenes == { << >> } \cup Scenes

\* n zero-area triangles, each collapsed to one point, at unit spacing on the x axis
ChainScene(n) == [ i \in 1..n |-> <<11 + i, 11 + i, 11 + i>> ]
\* n copies of one zero-area triangle: all centroids coincide
PileScene(n) == [ i \in 1..n |-> <<12, 12, 12>> ]

\* two triangles close to each other and a point far from both on the x axis
SpreadScene == << <<0, 2, 1>>, <<6, 8, 7>>, <<52, 52, 52>> >>

\* scenes given to the builder alone: the empty scene, the scenes of the
\* queries and the degenerate ones
BuildScenes ==
  { << >> } \cup Scenes \cup { SpreadScene }
    \cup { ChainScene(n) : n \in {2, 13, MaxChain} }
    \cup { PileScene(n) : n \in 2..MaxPile }

RayOrigins == { <<1, 1, 0>>, <<0, 1, 0>>, <<5, 5, 0>>, <<1, 1, 8>> }
RayDirections == { <<0, 0, 1>>, <<0, 0, 2>>, <<0, 0, 3>>, <<0, 0, -1>>, <<1, 1, 2>> }

VARIABLES
  indices,       \* index buffer of the merged scene: one vertex triple per triangle
  bvhVersion,    \* which revision of cpuBVH.ts built the tree (1: median, 2: SAH)
  nanPolicy,     \* how the GPU's min/max treat a NaN operand
  bvhRoot,       \* pointer tree returned by buildSceneBVH
  flat,          \* result of flattenBVH: [nodes, primitives]
  bvh,           \* the node array as the shader reads it
  pc,            \* position of the query pipeline
  ray,           \* the ray of the current query
  stack,         \* rayTrace: var stack (only the live part, stack_ptr = Len)
  closest_t,     \* rayTrace: var closest_t
  found_hit,     \* rayTrace: var found_hit
  hit,           \* rayTrace: *hit
  popped,        \* node indices popped so far, in order
  pick_result,   \* storage variable written by pick_main
  lightAdded,    \* whether the light's radiance was added for the shadow ray
  engineRef,     \* Playground: engineRef.current ("engine" or "null")
  destroyed,     \* createEngine: let destroyed
  queue,         \* operations submitted to device.queue and not yet executed
  pickCoordsBuffer,  \* content of pickCoordsBuffer
  readbackBuffer,    \* readbackBuffer: [mapState, data]
  calls,         \* the handleCanvasClick / pickObject invocations
  selectedObject, \* Playground: material id of the object selected by a click
  frameCount,    \* createEngine: let frameCount (frames submitted by renderFrame)
  work,          \* pending calls of getTriangleSetBVH: [triangleSet, depth], top first
  scene,         \* createEngine: scene, with the materials array of extractSceneData
  nbBounces,     \* createEngine: let nbBounces
  animating,     \* createEngine: let animating
  useRaytracer,  \* createEngine: let useRaytracer
  packed,        \* the array of the last packUniforms call (NotPacked before the first)
  uniformBuffer, \* content of uniformBuffer on the GPU
  rendered,      \* what the last executed render pass did: [frame, raytraced, iterations]
  aabbIndexCount, \* createEngine: let aabbIndexCount
  wireframe,     \* last debug wireframe: [depth, aabbs, positions, indices]
  merged,        \* MergedScene returned by extractSceneData (NotMerged before)
  radiance,      \* an evaluateRadiance call: [light, worldPos, zeroNormalize, inCone, returned]
  frag,          \* a rayFragmentMain invocation: its loop variables and what each iteration did
  timers,        \* createEngine: the animation-frame request and the FPS monitor's timer
  playground     \* Playground: the runs of the [selectedModel] effect and the canvas context

geomVars == << indices, bvhVersion, nanPolicy, bvhRoot, flat, bvh >>
travVars == << ray, stack, closest_t, found_hit, hit, popped >>
engineVars == << engineRef, destroyed, queue, pickCoordsBuffer, readbackBuffer, calls,
                 selectedObject, frameCount >>
sceneVars == << scene, nbBounces, animating, useRaytracer, packed, uniformBuffer,
               rendered, aabbIndexCount >>
hostVars == << frag, timers, playground >>
extVars == << wireframe, merged, radiance, hostVars >>
auxVars == << work, sceneVars, extVars >>
vars == << geomVars, travVars, engineVars, auxVars, pc, pick_result, lightAdded >>

\* ------------------------------------------------------------------------
\* Small helpers
\* ------------------------------------------------------------------------
Min2(a, b) == IF a < b THEN a ELSE b
Max2(a, b) == IF a > b THEN a ELSE b
SetMin(S) == CHOOSE x \in S : \A y \in S : x <= y
SetMax(S) == CHOOSE x \in S : \A y \in S : x >= y
Range(s) == { s[i] : i \in 1..Len(s) }
Slice(s, from, to) == SubSeq(s, from + 1, to)   \* s.slice(from, to), 0-based

\* positions[vi*3 + a]
Position(vi, a) == VertexPositions[vi + 1][a + 1]
\* indices[t*3 + v].  The shader's read past the end of the index buffer is
\* out of bounds; WebGPU makes such a load return a value of the buffer or
\* zero, and a buffer without triangles has no value to return but zero.
Index(idx, t, v) == IF t < Len(idx) THEN idx[t + 1][v + 1] ELSE 0
VertexOf(idx, t, v) == VertexPositions[Index(idx, t, v) + 1]

Sub(a, b) == << a[1] - b[1], a[2] - b[2], a[3] - b[3] >>
Dot(a, b) == a[1] * b[1] + a[2] * b[2] + a[3] * b[3]
Cross(a, b) == << a[2] * b[3] - a[3] * b[2],
                  a[3] * b[1] - a[1] * b[3],
                  a[1] * b[2] - a[2] * b[1] >>

\* ------------------------------------------------------------------------
\* cpuBVH.ts: boxes
\* ------------------------------------------------------------------------
\* Infinity of the corners' initial values: an integer above every coordinate.
\* The builder only compares coordinates with it; only the root of an empty
\* scene keeps it, and no box test of the traversal reads the root's box.
Infinity == 1000000

\* variant: the vertex loop stops one short ("v < 2")
getTriangleSetAABBTwoVertices(idx, triangleSet) ==
  LET coords(a) == { Position(Index(idx, triangleSet[i], v), a) :
                       i \in 1..Len(triangleSet), v \in 0..1 }
      lo(a) == SetMin(coords(a) \cup {Infinity})
      hi(a) == SetMax(coords(a) \cup {-Infinity})
  IN [ minCorner |-> << lo(0), lo(1), lo(2) >>, maxCorner |-> << hi(0), hi(1), hi(2) >> ]

getTriangleSetAABB(idx, triangleSet) ==
  LET coords(a) == { Position(Index(idx, triangleSet[i], v), a) :
                       i \in 1..Len(triangleSet), v \in 0..2 }
      lo(a) == SetMin(coords(a) \cup {Infinity})
      hi(a) == SetMax(coords(a) \cup {-Infinity})
  IN [ minCorner |-> << lo(0), lo(1), lo(2) >>, maxCorner |-> << hi(0), hi(1), hi(2) >> ]

dominantAxis(aabb) ==
  LET dx == aabb.maxCorner[1] - aabb.minCorner[1]
      dy == aabb.maxCorner[2] - aabb.minCorner[2]
      dz == aabb.maxCorner[3] - aabb.minCorner[3]
  IN IF dx >= dy /\ dx >= dz THEN 0
     ELSE IF dy >= dz THEN 1
     ELSE 2

boxSAHCost(box, tri_nb) ==
  LET size_x == box.maxCorner[1] - box.minCorner[1]
      size_y == box.maxCorner[2] - box.minCorner[2]
      size_z == box.maxCorner[3] - box.minCorner[3]
      half_surface_area == size_x * (size_y + size_z) + size_y * size_z
  IN half_surface_area * tri_nb

\* 3 * center of triangle tri along axis ((p0 + p1 + p2) / 3 in the code)
Center3(idx, tri, axis) ==
  Position(Index(idx, tri, 0), axis) + Position(Index(idx, tri, 1), axis)
    + Position(Index(idx, tri, 2), axis)

\* pairs.sort((a, b) => a.center - b.center): stable, ascending.  The place
\* of the element at position i is the number of elements that sort before it.
SortRank(idx, axis, triangleSet, i) ==
  LET c(j) == Center3(idx, triangleSet[j], axis)
  IN 1 + Cardinality({ j \in 1..Len(triangleSet) :
                         c(j) < c(i) \/ (c(j) = c(i) /\ j < i) })

SortByCenter(idx, axis, triangleSet) ==
  LET n == Len(triangleSet)
      rank == SubSeq([ i \in 1..n |-> SortRank(idx, axis, triangleSet, i) ], 1, n)
  IN SubSeq([ k \in 1..n |-> triangleSet[CHOOSE i \in 1..n : rank[i] = k] ], 1, n)

\* ------------------------------------------------------------------------
\* cpuBVH.ts (SAH revision): partitionSAH, getTriangleSetBVH
\* ------------------------------------------------------------------------
\* pairs.findIndex(p => p.center >= threshold) with
\* threshold = pairs[0].center + b * (range / nb_buckets), all scaled by 3 * nb_buckets
SplitIndex(idx, axis, sorted, b) ==
  LET c0 == Center3(idx, sorted[1], axis)
      range3 == Center3(idx, sorted[Len(sorted)], axis) - c0
      found == { i \in 0..(Len(sorted) - 1) :
                   nb_buckets * (Center3(idx, sorted[i + 1], axis) - c0) >= b * range3 }
  IN IF found = {} THEN -1 ELSE SetMin(found)

SplitCost(idx, sorted, splitIdx) ==
  boxSAHCost(getTriangleSetAABB(idx, Slice(sorted, 0, splitIdx)), splitIdx)
    + boxSAHCost(getTriangleSetAABB(idx, Slice(sorted, splitIdx, Len(sorted))),
                 Len(sorted) - splitIdx)

\* variant: the first candidate with both sides nonempty is kept, whatever its cost
BucketLoopFirstCandidate(idx, axis, sorted, b, best) ==
  LET valid == { c \in b..(nb_buckets - 1) : SplitIndex(idx, axis, sorted, c) > 0 }
  IN IF valid = {} THEN best
     ELSE LET splitIdx == SplitIndex(idx, axis, sorted, SetMin(valid))
          IN [bestCost |-> SplitCost(idx, sorted, splitIdx), bestSplit |-> splitIdx]

\* the loop "for (let b = 1; b < nb_buckets; b++)", carrying [bestCost, bestSplit]
RECURSIVE BucketLoop(_, _, _, _, _)
BucketLoop(idx, axis, sorted, b, best) ==
  IF b >= nb_buckets THEN best
  ELSE LET splitIdx == SplitIndex(idx, axis, sorted, b)
       IN IF splitIdx <= 0 THEN BucketLoop(idx, axis, sorted, b + 1, best)
          ELSE LET cost == SplitCost(idx, sorted, splitIdx)
               IN IF cost < best.bestCost
                  THEN BucketLoop(idx, axis, sorted, b + 1,
                                  [bestCost |-> cost, bestSplit |-> splitIdx])
                  ELSE BucketLoop(idx, axis, sorted, b + 1, best)

\* variant: the fallback cuts after the first primitive
BestSplitFallbackFirst(idx, axis, sorted) ==
  LET n == Len(sorted)
      range3 == Center3(idx, sorted[n], axis) - Center3(idx, sorted[1], axis)
      fallback == [bestCost |-> BestCostInit, bestSplit |-> 1]
  IN IF range3 > 0 THEN BucketLoop(idx, axis, sorted, 1, fallback).bestSplit
     ELSE fallback.bestSplit

\* bestSplit starts at n / 2; slice() truncates a fractional bound, so the
\* median fallback cuts at floor(n / 2).
BestSplit(idx, axis, sorted) ==
  LET n == Len(sorted)
      range3 == Center3(idx, sorted[n], axis) - Center3(idx, sorted[1], axis)
      fallback == [bestCost |-> BestCostInit, bestSplit |-> n \div 2]
  IN IF range3 > 0 THEN BucketLoop(idx, axis, sorted, 1, fallback).bestSplit
     ELSE fallback.bestSplit

\* variant: the right part starts one primitive early
partitionSAHRightFromBefore(idx, triangleSet, axis) ==
  LET sorted == SortByCenter(idx, axis, triangleSet)
      bestSplit == BestSplit(idx, axis, sorted)
  IN << Slice(sorted, 0, bestSplit), Slice(sorted, bestSplit - 1, Len(sorted)) >>

partitionSAH(idx, triangleSet, axis) ==
  LET sorted == SortByCenter(idx, axis, triangleSet)
      bestSplit == BestSplit(idx, axis, sorted)
  IN << Slice(sorted, 0, bestSplit), Slice(sorted, bestSplit, Len(sorted)) >>

\* variant: the depth cap is not tested
EmitsLeafNoCap(triangleSet, depth) == Len(triangleSet) <= 1

\* "if (triangleSet.length <= 1 || depth >= 25)"
EmitsLeaf(triangleSet, depth) == Len(triangleSet) <= 1 \/ depth >= DepthCap

RECURSIVE getTriangleSetBVH(_, _, _)
getTriangleSetBVH(idx, triangleSet, depth) ==
  LET box == getTriangleSetAABB(idx, triangleSet)
  IN IF EmitsLeaf(triangleSet, depth)
     THEN [kind |-> "leaf", boundingBox |-> box, triangles |-> triangleSet]
     ELSE LET axis == dominantAxis(box)
              parts == partitionSAH(idx, triangleSet, axis)
          IN [kind |-> "interior", boundingBox |-> box,
              left |-> getTriangleSetBVH(idx, parts[1], depth + 1),
              right |-> getTriangleSetBVH(idx, parts[2], depth + 1)]

\* ------------------------------------------------------------------------
\* cpuBVH.ts (median revision): partitionAlongMedian, getTriangleSetBVH
\* ------------------------------------------------------------------------
\* variant: "i < 0" in the distribution loop, every primitive goes right
partitionAlongMedianAllRight(idx, triangleSet, axis) ==
  << << >>, SortByCenter(idx, axis, triangleSet) >>

partitionAlongMedian(idx, triangleSet, axis) ==
  LET pairs == SortByCenter(idx, axis, triangleSet)
      \* i < pairs.length / 2 on a real-valued half: i goes left iff 2 * i < length
      nLeft == Cardinality({ i \in 0..(Len(pairs) - 1) : 2 * i < Len(pairs) })
  IN << Slice(pairs, 0, nLeft), Slice(pairs, nLeft, Len(pairs)) >>

RECURSIVE getTriangleSetBVHMedian(_, _)
getTriangleSetBVHMedian(idx, triangleSet) ==
  LET box == getTriangleSetAABB(idx, triangleSet)
  IN IF Len(triangleSet) <= 1
     THEN [kind |-> "leaf", boundingBox |-> box,
           triangleIndex |-> IF Len(triangleSet) = 1 THEN triangleSet[1] ELSE -1]
     ELSE LET axis == dominantAxis(box)
              parts == partitionAlongMedian(idx, triangleSet, axis)
          IN [kind |-> "interior", boundingBox |-> box,
              left |-> getTriangleSetBVHMedian(idx, parts[1]),
              right |-> getTriangleSetBVHMedian(idx, parts[2])]

\* triangleSet = [0, 1, ..., nb_triangles - 1]
AllTriangles(idx) == SubSeq([ i \in 1..Len(idx) |-> i - 1 ], 1, Len(idx))

buildSceneBVH(idx, version) ==
  IF version = 2 THEN getTriangleSetBVH(idx, AllTriangles(idx), 0)
  ELSE getTriangleSetBVHMedian(idx, AllTriangles(idx))

\* ------------------------------------------------------------------------
\* cpuBVH.ts: flattening.  The accumulator st is [out, primitives]; the
\* result adds next, the index flattenNode returns.  writes lists the indices
\* of the assignments "out[index] = {..}" in the order they are made.
\* ------------------------------------------------------------------------
\* out[index] = node (a JavaScript array grows when written past its end)
SetAt(out, index, node) ==
  IF index < Len(out) THEN [out EXCEPT ![index + 1] = node]
  ELSE out \o [ i \in 1..(index - Len(out)) |-> "hole" ] \o << node >>

\* variant: maxCorner copied from minCorner
FlatLeafBoxSwap(node, primStart, version) ==
  [ minCorner |-> node.boundingBox.minCorner,
    maxCorner |-> node.boundingBox.minCorner,
    isLeaf |-> TRUE,
    leftChild |-> -1,
    rightChild |-> -1,
    triangleIndex |-> IF version = 2 THEN primStart ELSE node.triangleIndex,
    nbTris |-> IF version = 2 THEN Len(node.triangles) ELSE -1 ]

\* variant: the leaf keeps a triangle id instead of the start of its range
FlatLeafTriangleId(node, primStart, version) ==
  [ minCorner |-> node.boundingBox.minCorner,
    maxCorner |-> node.boundingBox.maxCorner,
    isLeaf |-> TRUE,
    leftChild |-> -1,
    rightChild |-> -1,
    triangleIndex |-> IF version = 2
                      THEN (IF node.triangles = << >> THEN 0 ELSE node.triangles[1])
                      ELSE node.triangleIndex,
    nbTris |-> IF version = 2 THEN Len(node.triangles) ELSE -1 ]

FlatLeaf(node, primStart, version) ==
  [ minCorner |-> node.boundingBox.minCorner,
    maxCorner |-> node.boundingBox.maxCorner,
    isLeaf |-> TRUE,
    leftChild |-> -1,
    rightChild |-> -1,
    triangleIndex |-> IF version = 2 THEN primStart ELSE node.triangleIndex,
    nbTris |-> IF version = 2 THEN Len(node.triangles) ELSE -1 ]

\* variant: the left child is the node itself
FlatInteriorLeftSelf(node, index) ==
  [ minCorner |-> node.boundingBox.minCorner,
    maxCorner |-> node.boundingBox.maxCorner,
    isLeaf |-> FALSE,
    leftChild |-> index,
    rightChild |-> -1,
    triangleIndex |-> -1,
    nbTris |-> -1 ]

FlatInterior(node, index) ==
  [ minCorner |-> node.boundingBox.minCorner,
    maxCorner |-> node.boundingBox.maxCorner,
    isLeaf |-> FALSE,
    leftChild |-> index + 1,
    rightChild |-> -1,
    triangleIndex |-> -1,
    nbTris |-> -1 ]

\* variant: right child index one too small
RightChildIndexOffByOne(leftResult) == leftResult.next - 1

\* index of the right child, as returned by the recursion into the left subtree
RightChildIndex(leftResult) == leftResult.next

RECURSIVE flattenNode(_, _, _, _)
flattenNode(node, index, st, version) ==
  IF node.kind = "leaf"
  THEN [ next |-> index + 1,
         out |-> SetAt(st.out, index, FlatLeaf(node, Len(st.primitives), version)),
         primitives |-> IF version = 2 THEN st.primitives \o node.triangles
                        ELSE st.primitives,
         writes |-> Append(st.writes, index) ]
  ELSE LET written == SetAt(st.out, index, FlatInterior(node, index))
           l == flattenNode(node.left, index + 1,
                            [out |-> written, primitives |-> st.primitives,
                             writes |-> Append(st.writes, index)], version)
           rightChildIdx == RightChildIndex(l)
           patched == [l.out EXCEPT ![index + 1].rightChild = rightChildIdx]
       IN flattenNode(node.right, rightChildIdx,
                      [out |-> patched, primitives |-> l.primitives,
                       writes |-> l.writes], version)

flattenBVH(root, version) ==
  LET r == flattenNode(root, 0, [out |-> << >>, primitives |-> << >>, writes |-> << >>],
                       version)
  IN [nodes |-> r.out, primitives |-> r.primitives]


\* ------------------------------------------------------------------------
\* f32 values of the shaders: a fraction n/d (d > 0), 1e30, +-infinity, NaN
\* ------------------------------------------------------------------------
Fin(n, d) == IF d < 0 THEN [k |-> "fin", n |-> -n, d |-> -d]
             ELSE [k |-> "fin", n |-> n, d |-> d]
Huge == [k |-> "huge", n |-> 1, d |-> 1]        \* the literal 1e30
PosInf == [k |-> "inf", n |-> 1, d |-> 1]
NegInf == [k |-> "neg_inf", n |-> -1, d |-> 1]
NaN == [k |-> "nan", n |-> 0, d |-> 1]

Rank(x) == CASE x.k = "neg_inf" -> -2
             [] x.k = "fin" -> 0
             [] x.k = "huge" -> 1
             [] x.k = "inf" -> 2
             [] OTHER -> 3

\* a < b; any comparison with a NaN is false
FLess(a, b) ==
  /\ a.k # "nan"
  /\ b.k # "nan"
  /\ IF Rank(a) # Rank(b) THEN Rank(a) < Rank(b)
     ELSE a.k = "fin" /\ a.n * b.d < b.n * a.d
FEq(a, b) ==
  /\ a.k # "nan"
  /\ b.k # "nan"
  /\ Rank(a) = Rank(b)
  /\ a.k = "fin" => a.n * b.d = b.n * a.d
FGeq(a, b) == FLess(b, a) \/ FEq(a, b)

\* x / y with IEEE results for a zero divisor
FDiv(x, y) ==
  IF y # 0 THEN Fin(x, y)
  ELSE IF x > 0 THEN PosInf
  ELSE IF x < 0 THEN NegInf
  ELSE NaN

\* min and max of WGSL.  With a NaN operand the result depends on the GPU:
\* "select" is the comparison the WGSL text gives (e2 < e1 ? e2 : e1),
\* "minnum" returns the operand that is not a NaN.
NanPolicies == { "select", "minnum" }
fmin(np, e1, e2) ==
  IF np = "minnum" /\ e1.k = "nan" THEN e2
  ELSE IF np = "minnum" /\ e2.k = "nan" THEN e1
  ELSE IF FLess(e2, e1) THEN e2 ELSE e1
fmax(np, e1, e2) ==
  IF np = "minnum" /\ e1.k = "nan" THEN e2
  ELSE IF np = "minnum" /\ e2.k = "nan" THEN e1
  ELSE IF FLess(e1, e2) THEN e2 ELSE e1

\* ------------------------------------------------------------------------
\* assignment.wgsl: intersection kernels
\* ------------------------------------------------------------------------
\* one iteration of the slab loop of rayBoxHit, on axis i (0-based)
SlabStep(np, r, box, acc, i) ==
  LET t1 == FDiv(box.minCorner[i + 1] - r.origin[i + 1], r.direction[i + 1])
      t2 == FDiv(box.maxCorner[i + 1] - r.origin[i + 1], r.direction[i + 1])
  IN [ tmin |-> fmax(np, acc.tmin, fmin(np, t1, t2)),
       tmax |-> fmin(np, acc.tmax, fmax(np, t1, t2)) ]

rayBoxHit(np, r, box) ==
  LET a0 == [tmin |-> Fin(0, 1), tmax |-> Huge]
      a1 == SlabStep(np, r, box, a0, 0)
      a2 == SlabStep(np, r, box, a1, 1)
      a3 == SlabStep(np, r, box, a2, 2)
  IN FGeq(a3.tmax, a3.tmin) /\ FGeq(a3.tmax, Fin(0, 1))

\* a zero-initialised Hit ("var hit: Hit;")
ZeroHit == [ triIndex |-> 0,
             barycentricCoords |-> << Fin(0, 1), Fin(0, 1), Fin(0, 1) >>,
             t |-> Fin(0, 1) ]
no_hit == [ ZeroHit EXCEPT !.t = Fin(-1, 1) ]

\* On the integer grid x < 0.00001 iff x <= 0 (a nonzero value is far above 1e-5)
BelowEps(x) == x <= 0

\* rayTriangleHit: single-sided, a determinant below the epsilon is a miss
rayTriangleHit(idx, r, tri_idx) ==
  LET v0 == VertexOf(idx, tri_idx, 0)
      v1 == VertexOf(idx, tri_idx, 1)
      v2 == VertexOf(idx, tri_idx, 2)
      e1 == Sub(v1, v0)
      e2 == Sub(v2, v0)
      P == Cross(r.direction, e2)
      det == Dot(e1, P)
      T == Sub(r.origin, v0)
      un == Dot(T, P)                       \* u = un / det
      Q == Cross(T, e1)
      vn == Dot(r.direction, Q)             \* v = vn / det
      tn == Dot(e2, Q)                      \* t = tn / det
  IN IF BelowEps(det) THEN no_hit
     ELSE IF un < 0 \/ un > det THEN no_hit
     ELSE IF vn < 0 \/ un + vn > det THEN no_hit
     ELSE IF BelowEps(tn) THEN no_hit
     ELSE [ triIndex |-> tri_idx,
            barycentricCoords |-> << Fin(det - un - vn, det), Fin(un, det), Fin(vn, det) >>,
            t |-> Fin(tn, det) ]

\* ------------------------------------------------------------------------
\* raytracing.wgsl: rayTrace, the loop over all triangles (double-sided)
\* ------------------------------------------------------------------------
Abs(x) == IF x < 0 THEN -x ELSE x

\* body of the loop for one tri_idx, acc = [closest_t, found_hit, hit]
BruteForceBody(idx, r, tri_idx, acc) ==
  LET v0 == VertexOf(idx, tri_idx, 0)
      v1 == VertexOf(idx, tri_idx, 1)
      v2 == VertexOf(idx, tri_idx, 2)
      e1 == Sub(v1, v0)
      e2 == Sub(v2, v0)
      P == Cross(r.direction, e2)
      det == Dot(e1, P)
      T == Sub(r.origin, v0)
      u == Fin(Dot(T, P), det)
      Q == Cross(T, e1)
      v == Fin(Dot(r.direction, Q), det)
      t == Fin(Dot(e2, Q), det)
      one == Fin(1, 1)
      zero == Fin(0, 1)
  IN IF BelowEps(Abs(det)) THEN acc
     ELSE IF FLess(u, zero) \/ FLess(one, u) THEN acc
     ELSE IF FLess(v, zero) \/ FLess(one, Fin(u.n + v.n, u.d)) THEN acc
     ELSE IF FLess(zero, t) /\ FLess(t, acc.closest_t)
          THEN [ closest_t |-> t, found_hit |-> TRUE,
                 hit |-> [ triIndex |-> tri_idx,
                           barycentricCoords |->
                             << Fin(u.d - u.n - v.n, u.d), u, v >>,
                           t |-> t ] ]
          ELSE acc

RECURSIVE BruteForceLoop(_, _, _, _)
BruteForceLoop(idx, r, tri_idx, acc) ==
  IF tri_idx >= Len(idx) THEN acc
  ELSE BruteForceLoop(idx, r, tri_idx + 1, BruteForceBody(idx, r, tri_idx, acc))

rayTraceBruteForce(idx, r) ==
  BruteForceLoop(idx, r, 0, [closest_t |-> Huge, found_hit |-> FALSE, hit |-> ZeroHit])


\* ------------------------------------------------------------------------
\* Assignment.tsx, createEngine: the node array uploaded for the shader's
\* struct BVHNode.  A leaf's triangleIndex of -1 is written as 0; fields that
\* are not written keep the 0 of the fresh ArrayBuffer.
\* ------------------------------------------------------------------------
PackNode(n) ==
  [ minCorner |-> n.minCorner,
    maxCorner |-> n.maxCorner,
    isLeaf |-> IF n.isLeaf THEN 1 ELSE 0,
    triangleIdx |-> IF n.isLeaf
                    THEN (IF n.triangleIndex >= 0 THEN n.triangleIndex ELSE 0)
                    ELSE (IF n.rightChild >= 0 THEN n.rightChild ELSE 0),
    leftChildIdx |-> IF n.isLeaf THEN 0 ELSE n.leftChild,
    rightChildIdx |-> IF n.isLeaf THEN 0 ELSE n.rightChild ]

PackBVH(nodes) == [ i \in 1..Len(nodes) |-> PackNode(nodes[i]) ]

\* ------------------------------------------------------------------------
\* assignment.wgsl: rayTrace.  st = [stack, closest_t, found_hit, hit, popped]
\* ------------------------------------------------------------------------
RayTraceStart ==
  [ stack |-> << 0 >>, closest_t |-> Huge, found_hit |-> FALSE, hit |-> ZeroHit,
    popped |-> << >> ]

\* variant: the pop forgets to decrement stack_ptr
PopNoDecrement(stk) == stk

\* the stack after "stack_ptr -= 1"
Pop(stk) == SubSeq(stk, 1, Len(stk) - 1)

\* variant: both pushes use the left child
PushChildrenLeftTwice(np, arr, r, stk, node) ==
  LET leftChild == node.leftChildIdx
      s1 == IF rayBoxHit(np, r, arr[leftChild + 1]) THEN Append(stk, leftChild) ELSE stk
  IN IF rayBoxHit(np, r, arr[leftChild + 1]) THEN Append(s1, leftChild) ELSE s1

\* the two conditional pushes of an interior node: right child first, then left
PushChildren(np, arr, r, stk, node) ==
  LET rightChild == node.rightChildIdx
      leftChild == node.leftChildIdx
      s1 == IF rayBoxHit(np, r, arr[rightChild + 1]) THEN Append(stk, rightChild) ELSE stk
  IN IF rayBoxHit(np, r, arr[leftChild + 1]) THEN Append(s1, leftChild) ELSE s1

\* one iteration of "while (stack_ptr > 0)"
RayTraceIteration(np, idx, arr, r, st) ==
  LET curr_node_idx == st.stack[Len(st.stack)]
      rest == Pop(st.stack)
      node == arr[curr_node_idx + 1]
  IN IF node.isLeaf # 0
     THEN LET candidate == rayTriangleHit(idx, r, node.triangleIdx)
          IN IF FLess(Fin(0, 1), candidate.t) /\ FLess(candidate.t, st.closest_t)
             THEN [ stack |-> rest, closest_t |-> candidate.t, found_hit |-> TRUE,
                    hit |-> candidate, popped |-> Append(st.popped, curr_node_idx) ]
             ELSE [ st EXCEPT !.stack = rest,
                              !.popped = Append(st.popped, curr_node_idx) ]
     ELSE [ st EXCEPT !.stack = PushChildren(np, arr, r, rest, node),
                      !.popped = Append(st.popped, curr_node_idx) ]

\* the whole loop, for callers that run a query in one step
RECURSIVE RayTraceLoop(_, _, _, _, _)
RayTraceLoop(np, idx, arr, r, st) ==
  IF Len(st.stack) > 0 /\ Len(st.popped) < 4 * Len(arr)
  THEN RayTraceLoop(np, idx, arr, r, RayTraceIteration(np, idx, arr, r, st))
  ELSE st

rayTrace(np, idx, arr, r) == RayTraceLoop(np, idx, arr, r, RayTraceStart)

\* variant: objectIds indexed by the triangle instead of its first vertex
pick_mainNoIndirection(idx, found, h) ==
  IF found THEN VertexObjectIds[h.triIndex + 1] ELSE -1

\* pick_main: the value stored into pick_result
pick_main(idx, found, h) ==
  IF found THEN VertexObjectIds[Index(idx, h.triIndex, 0) + 1] ELSE -1

\* rayFragmentMain, light loop: "!is_shadow || shadow_hit.t > length(lightVec)".
\* The shadow ray's direction is carried as lightVec itself, so a distance of
\* length(lightVec) along normalize(lightVec) is the parameter 1.
LightContributes(is_shadow, shadow_hit) ==
  ~is_shadow \/ FLess(Fin(1, 1), shadow_hit.t)

\* ------------------------------------------------------------------------
\* The scene the uniforms are packed from: lights, materials by id, camera.
\* Numbers are integers: lengths in scene units, colours, intensities and
\* Fresnel terms in thousandths, angles in degrees.
\* ------------------------------------------------------------------------
\* Camera of the pick ray.  The basis is scaled by 3 so that screen
\* coordinates counted in thirds give integral directions; normalize() is
\* dropped, the triangle a ray hits does not depend on the length of its
\* direction.
Camera == [ camera_pos |-> <<1, 1, 0>>, camera_forward |-> <<0, 0, 3>>,
            camera_right |-> <<1, 0, 0>>, camera_up |-> <<0, 1, 0>>,
            fov_factor |-> 1, aspect_ratio |-> 1 ]

\* light i (0-based) of a scene; every field tells the light it belongs to
SceneLight(i) ==
  [ position |-> << 1000 + 10 * i + 1, 1000 + 10 * i + 2, 1000 + 10 * i + 3 >>,
    color |-> << 2000 + 10 * i + 1, 2000 + 10 * i + 2, 2000 + 10 * i + 3 >>,
    intensity |-> 3000 + 10 * i,
    direction |-> << 4000 + 10 * i + 1, 4000 + 10 * i + 2, 4000 + 10 * i + 3 >>,
    angle |-> 360 - i ]

\* material with id i; every field tells the material it belongs to
SceneMaterial(i) ==
  [ id |-> i,
    diffuseAlbedo |-> << 5000 + 10 * i + 1, 5000 + 10 * i + 2, 5000 + 10 * i + 3 >>,
    roughness |-> 6000 + 10 * i,
    fresnel |-> << 700 + 10 * i + 1, 700 + 10 * i + 2, 700 + 10 * i + 3 >>,
    metalness |-> 8000 + 10 * i ]

\* a scene with nbLights lights whose objects use the material ids 0..nbMaterials-1;
\* materials is the dense array extractSceneData builds, whose entries are the
\* very objects scene.objects[..].material refer to
SceneOf(nbLights, nbMaterials) ==
  [ lights |-> [ i \in 1..nbLights |-> SceneLight(i - 1) ],
    materials |-> [ i \in 1..nbMaterials |-> SceneMaterial(i - 1) ],
    camera |-> Camera ]

\* buildScene: four lights, four materials
DefaultScene == SceneOf(4, 4)

\* ------------------------------------------------------------------------
\* Assignment.tsx, createEngine: layout of the uniform array
\* ------------------------------------------------------------------------
MAX_LIGHTS == 4
MAX_MATERIALS == 16
MATERIAL_SIZE == 8
MVP_SIZE == 16
SHARED_HEADER == 4
LIGHTS_SIZE == MAX_LIGHTS * 12
MATERIALS_HEADER == 4
RAY_CAMERA_SIZE == 12
RAY_OFFSET ==
  MVP_SIZE + SHARED_HEADER + LIGHTS_SIZE + MATERIALS_HEADER + MAX_MATERIALS * MATERIAL_SIZE
UNIFORM_LENGTH == RAY_OFFSET + RAY_CAMERA_SIZE

\* A Float32Array being filled: its content, whether a write threw, the
\* writes that landed ([what, i, from, to], indices 0-based) and the
\* diagnostics recorded.  Once a write has thrown the rest of the function
\* does not run.
Float32Array(length) ==
  [ out |-> [ i \in 1..length |-> 0 ], threw |-> FALSE, log |-> << >>,
    diagnostics |-> << >> ]

Written(what, i, from, to) == [what |-> what, i |-> i, from |-> from, to |-> to]

\* out.set(values, offset): a RangeError when the values do not fit, and
\* then nothing is copied
TypedArraySet(st, values, offset, what, i) ==
  IF st.threw THEN st
  ELSE IF offset + Len(values) > Len(st.out) THEN [st EXCEPT !.threw = TRUE]
  ELSE [ st EXCEPT
           !.out = SubSeq(st.out, 1, offset) \o values
                     \o SubSeq(st.out, offset + Len(values) + 1, Len(st.out)),
           !.log = Append(st.log, Written(what, i, offset, offset + Len(values) - 1)) ]

\* out[index] = value: a store past the end of a typed array is ignored
TypedArrayStore(st, index, value, what, i) ==
  IF st.threw \/ index >= Len(st.out) THEN st
  ELSE [ st EXCEPT !.out[index + 1] = value,
                   !.log = Append(st.log, Written(what, i, index, index)) ]

\* angle * Math.PI / 180, in thousandths of a radian
Radians(angle) == (angle * 31416) \div 1800

\* body of the loop over scene.lights
PackLight(st, lights, i) ==
  LET light == lights[i + 1]
      s1 == TypedArraySet(st, light.position, 20 + i * 12, "light", i)
      s2 == TypedArrayStore(s1, 23 + i * 12, light.intensity, "light", i)
      s3 == TypedArraySet(s2, light.color, 24 + i * 12, "light", i)
      s4 == TypedArraySet(s3, light.direction, 28 + i * 12, "light", i)
  IN TypedArrayStore(s4, 31 + i * 12, Radians(light.angle), "light", i)

RECURSIVE PackLights(_, _, _)
PackLights(st, lights, i) ==
  IF i >= Len(lights) \/ st.threw THEN st
  ELSE PackLights(PackLight(st, lights, i), lights, i + 1)

\* variant: the material entries start right after the header of the lights
MaterialBaseIdxNoHeader(matOffset, i) == matOffset + i * MATERIAL_SIZE

\* "const baseIdx = matOffset + 4 + i * MATERIAL_SIZE"
MaterialBaseIdx(matOffset, i) == matOffset + 4 + i * MATERIAL_SIZE

\* body of the loop over materials
PackMaterial(st, materials, matOffset, i) ==
  LET material == materials[i + 1]
      baseIdx == MaterialBaseIdx(matOffset, i)
      s1 == TypedArraySet(st, material.diffuseAlbedo, baseIdx, "material", i)
      s2 == TypedArrayStore(s1, baseIdx + 3, material.roughness, "material", i)
      s3 == TypedArraySet(s2, material.fresnel, baseIdx + 4, "material", i)
  IN TypedArrayStore(s3, baseIdx + 7, material.metalness, "material", i)

RECURSIVE PackMaterials(_, _, _, _)
PackMaterials(st, materials, matOffset, i) ==
  IF i >= Len(materials) \/ st.threw THEN st
  ELSE PackMaterials(PackMaterial(st, materials, matOffset, i), materials, matOffset, i + 1)

packLightsAndMaterials(st, sc, nb) ==
  LET s1 == TypedArraySet(st, sc.camera.camera_pos, 16, "camera_pos", 0)
      s2 == TypedArrayStore(s1, 19, Len(sc.lights), "nbLights", 0)
      s3 == PackLights(s2, sc.lights, 0)
      matOffset == 20 + MAX_LIGHTS * 12
      s4 == TypedArrayStore(s3, matOffset, Len(sc.materials), "nbMaterials", 0)
      s5 == TypedArrayStore(s4, matOffset + 1, nb, "nbBounces", 0)
  IN PackMaterials(s5, sc.materials, matOffset, 0)

\* getMVP for a camera that keeps its orientation: the translation by
\* -camera_pos, column-major; the projection is left out (the rasterizer's
\* matrix plays no part in any ray query)
getMVP(camera) ==
  << 1, 0, 0, 0,   0, 1, 0, 0,   0, 0, 1, 0,
     -camera.camera_pos[1], -camera.camera_pos[2], -camera.camera_pos[3], 1 >>

packUniforms(sc, nb, time) ==
  LET data == Float32Array(UNIFORM_LENGTH)
      s1 == TypedArraySet(data, getMVP(sc.camera), 0, "mvp", 0)
      s2 == packLightsAndMaterials(s1, sc, nb)
      s3 == TypedArraySet(s2, sc.camera.camera_forward \o << sc.camera.fov_factor >>,
                          RAY_OFFSET, "basis", 0)
      s4 == TypedArraySet(s3, sc.camera.camera_right \o << sc.camera.aspect_ratio >>,
                          RAY_OFFSET + 4, "basis", 1)
  IN TypedArraySet(s4, sc.camera.camera_up \o << time >>, RAY_OFFSET + 8, "basis", 2)

\* ------------------------------------------------------------------------
\* assignment.wgsl: struct Uniforms as the shaders read it (u is the content
\* of the uniform buffer, offsets in floats)
\* ------------------------------------------------------------------------
UniformLight(u, i) ==
  [ position |-> SubSeq(u, 20 + i * 12 + 1, 20 + i * 12 + 3),
    intensity |-> u[20 + i * 12 + 3 + 1],
    color |-> SubSeq(u, 20 + i * 12 + 4 + 1, 20 + i * 12 + 4 + 3),
    direction |-> SubSeq(u, 20 + i * 12 + 8 + 1, 20 + i * 12 + 8 + 3),
    angle |-> u[20 + i * 12 + 11 + 1] ]

UniformMaterial(u, i) ==
  [ baseColor |-> SubSeq(u, 72 + i * 8 + 1, 72 + i * 8 + 3),
    roughness |-> u[72 + i * 8 + 3 + 1],
    fresnel |-> SubSeq(u, 72 + i * 8 + 4 + 1, 72 + i * 8 + 4 + 3),
    metalness |-> u[72 + i * 8 + 7 + 1] ]

UniformCamera(u) ==
  [ camera_pos |-> SubSeq(u, 16 + 1, 16 + 3),
    camera_forward |-> SubSeq(u, 200 + 1, 200 + 3),
    fov_factor |-> u[203 + 1],
    camera_right |-> SubSeq(u, 204 + 1, 204 + 3),
    aspect_ratio |-> u[207 + 1],
    camera_up |-> SubSeq(u, 208 + 1, 208 + 3) ]

UniformNbLights(u) == u[19 + 1]
UniformNbMaterials(u) == u[68 + 1]

\* ------------------------------------------------------------------------
\* The query pipeline: engine creation, one ray query, its consumer
\* ------------------------------------------------------------------------
NoTree == [kind |-> "none"]
CallIds == 1..MaxCalls
IdleCall == [state |-> "idle", coords |-> <<0, 0>>, result |-> 0]

EngineIdle ==
  /\ engineRef = "null"
  /\ destroyed = FALSE
  /\ queue = << >>
  /\ pickCoordsBuffer = <<0, 0>>
  /\ readbackBuffer = [mapState |-> "unmapped", data |-> 0]
  /\ calls = [c \in CallIds |-> IdleCall]
  /\ selectedObject = -1
  /\ frameCount = 0

NoWireframe == [depth |-> -1, aabbs |-> << >>, positions |-> << >>, indices |-> << >>]

\* the state outside createEngine's closure before anything ran
NotMerged == [positions |-> << >>, indices |-> << >>, objectIds |-> << >>,
              materials |-> << >>, ranges |-> << >>, called |-> FALSE]

NoRadiance == [ light |-> << >>, worldPos |-> <<0, 0, 0>>, zeroNormalize |-> "nan",
                inCone |-> FALSE, returned |-> "none" ]

\* no fragment invocation, no timer and no effect run modelled
NoFragment == [ bounce |-> 0, ray |-> <<0, 0, 0>>, throughput |-> <<0, 0, 0>>,
                materials |-> << >>, shaded |-> 0, log |-> << >>, exit |-> "none" ]
NoTimers == [ animFrame |-> "none", animFrameId |-> 0, fpsMeasuring |-> FALSE,
              fpsTimeout |-> "none", startCount |-> 0, results |-> 0 ]
NoPlayground == [ runs |-> << >>, engineRef |-> 0, configured |-> 0, mounted |-> FALSE ]

HostIdle ==
  /\ frag = NoFragment
  /\ timers = NoTimers
  /\ playground = NoPlayground

ExtIdle ==
  /\ wireframe = NoWireframe
  /\ merged = NotMerged
  /\ radiance = NoRadiance
  /\ HostIdle

NotPacked == Float32Array(0)
NoFrame == [frame |-> 0, raytraced |-> FALSE, iterations |-> << >>]

\* the engine-level state as createEngine leaves it for the scene of
\* buildScene: "let nbBounces = 1", "let animating = false",
\* "let useRaytracer = false", writeBuffer(uniformBuffer, 0, packUniforms())
SceneIdle ==
  /\ scene = DefaultScene
  /\ nbBounces = 1
  /\ animating = FALSE
  /\ useRaytracer = FALSE
  /\ packed = NotPacked
  /\ uniformBuffer = packUniforms(DefaultScene, 1, 0).out
  /\ rendered = NoFrame
  /\ aabbIndexCount = 0

\* no builder call pending
AuxIdle ==
  /\ ExtIdle
  /\ work = << >>
  /\ SceneIdle

TraversalIdle ==
  /\ ray = [origin |-> <<0, 0, 0>>, direction |-> <<0, 0, 1>>]
  /\ stack = << >>
  /\ closest_t = Huge
  /\ found_hit = FALSE
  /\ hit = ZeroHit
  /\ popped = << >>

Init ==
  /\ indices \in QueryScenes
  /\ bvhVersion \in {1, 2}
  /\ nanPolicy \in NanPolicies
  /\ bvhRoot = NoTree
  /\ flat = [nodes |-> << >>, primitives |-> << >>]
  /\ bvh = << >>
  /\ pc = "create"
  /\ TraversalIdle
  /\ pick_result = 0
  /\ lightAdded = FALSE
  /\ EngineIdle
  /\ AuxIdle

\* createEngine: buildSceneBVH, flattenBVH, upload of the node array
CreateEngine ==
  /\ pc = "create"
  /\ LET root == buildSceneBVH(indices, bvhVersion)
         f == flattenBVH(root, bvhVersion)
     IN /\ bvhRoot' = root
        /\ flat' = f
        /\ bvh' = PackBVH(f.nodes)
  /\ pc' = "ready"
  /\ UNCHANGED auxVars
  /\ UNCHANGED << indices, bvhVersion, nanPolicy, travVars, engineVars, pick_result,
                  lightAdded >>

\* entry of rayTrace for a ray of a fragment, a shadow ray or the pick ray
RayTraceBegin ==
  /\ pc = "ready"
  /\ \E o \in RayOrigins, d \in RayDirections :
       ray' = [origin |-> o, direction |-> d]
  /\ stack' = RayTraceStart.stack
  /\ closest_t' = RayTraceStart.closest_t
  /\ found_hit' = RayTraceStart.found_hit
  /\ hit' = RayTraceStart.hit
  /\ popped' = RayTraceStart.popped
  /\ pc' = "trace"
  /\ UNCHANGED auxVars
  /\ UNCHANGED << geomVars, engineVars, pick_result, lightAdded >>

RayTraceStep ==
  /\ pc = "trace"
  /\ Len(stack) > 0
  /\ LET st == RayTraceIteration(nanPolicy, indices, bvh, ray,
                                 [ stack |-> stack, closest_t |-> closest_t,
                                   found_hit |-> found_hit, hit |-> hit,
                                   popped |-> popped ])
     IN /\ stack' = st.stack
        /\ closest_t' = st.closest_t
        /\ found_hit' = st.found_hit
        /\ hit' = st.hit
        /\ popped' = st.popped
  /\ UNCHANGED auxVars
  /\ UNCHANGED << geomVars, engineVars, pc, ray, pick_result, lightAdded >>

\* "return found_hit"
RayTraceReturn ==
  /\ pc = "trace"
  /\ Len(stack) = 0
  /\ pc' = "traced"
  /\ UNCHANGED auxVars
  /\ UNCHANGED << geomVars, travVars, engineVars, pick_result, lightAdded >>

\* pick_main after its rayTrace call
PickMain ==
  /\ pc = "traced"
  /\ pick_result' = pick_main(indices, found_hit, hit)
  /\ pc' = "picked"
  /\ UNCHANGED auxVars
  /\ UNCHANGED << geomVars, travVars, engineVars, lightAdded >>

\* rayFragmentMain after the rayTrace call on a shadow ray
ShadowGate ==
  /\ pc = "traced"
  /\ lightAdded' = LightContributes(found_hit, hit)
  /\ pc' = "shaded"
  /\ UNCHANGED auxVars
  /\ UNCHANGED << geomVars, travVars, engineVars, pick_result >>

Next ==
  \/ CreateEngine
  \/ RayTraceBegin
  \/ RayTraceStep
  \/ RayTraceReturn
  \/ PickMain
  \/ ShadowGate

Spec == Init /\ [][Next]_vars

\* ------------------------------------------------------------------------
\* The builder alone, one call of getTriangleSetBVH per step
\* ------------------------------------------------------------------------
BuildCallFrame(triangleSet, depth) == [triangleSet |-> triangleSet, depth |-> depth]

\* the two sets a call recurses on
Partition(idx, triangleSet, version) ==
  LET axis == dominantAxis(getTriangleSetAABB(idx, triangleSet))
  IN IF version = 2 THEN partitionSAH(idx, triangleSet, axis)
     ELSE partitionAlongMedian(idx, triangleSet, axis)

\* whether a call returns a leaf; the median revision has no depth parameter
CallEmitsLeaf(frame, version) ==
  IF version = 2 THEN EmitsLeaf(frame.triangleSet, frame.depth)
  ELSE Len(frame.triangleSet) <= 1

\* buildSceneBVH is entered: extractSceneData, the triangle set 0..n-1
InitBuild ==
  /\ indices \in BuildScenes
  /\ bvhVersion \in {1, 2}
  /\ nanPolicy = "select"
  /\ bvhRoot = NoTree
  /\ flat = [nodes |-> << >>, primitives |-> << >>]
  /\ bvh = << >>
  /\ pc = "build"
  /\ TraversalIdle
  /\ pick_result = 0
  /\ lightAdded = FALSE
  /\ EngineIdle
  /\ SceneIdle
  /\ ExtIdle
  /\ work = << BuildCallFrame(AllTriangles(indices), 0) >>

\* one call of getTriangleSetBVH: a leaf, or an interior node whose left
\* subtree is built before its right subtree
BuildCall ==
  /\ pc = "build"
  /\ work # << >>
  /\ LET frame == Head(work)
     IN IF CallEmitsLeaf(frame, bvhVersion)
        THEN work' = Tail(work)
        ELSE LET parts == Partition(indices, frame.triangleSet, bvhVersion)
                 next == IF bvhVersion = 2 THEN frame.depth + 1 ELSE 0
             IN work' = << BuildCallFrame(parts[1], next), BuildCallFrame(parts[2], next) >>
                          \o Tail(work)
  /\ UNCHANGED << geomVars, travVars, engineVars, pc, pick_result, lightAdded >>
  /\ UNCHANGED << sceneVars, extVars >>

\* the outermost call returns the tree
BuildReturn ==
  /\ pc = "build"
  /\ work = << >>
  /\ bvhRoot' = buildSceneBVH(indices, bvhVersion)
  /\ pc' = "built"
  /\ UNCHANGED << indices, bvhVersion, nanPolicy, flat, bvh, travVars, engineVars,
                  auxVars, pick_result, lightAdded >>

NextBuild ==
  \/ BuildCall
  \/ BuildReturn

\* buildSceneBVH is synchronous code: a call that can take a step takes it.
\* A step of the builder is possible exactly while pc = "build", so this is
\* weak fairness of NextBuild with its enabling condition written out.
BuildFairness == []<>(pc # "build") \/ []<><<NextBuild>>_vars

SpecBuild == InitBuild /\ [][NextBuild]_vars /\ BuildFairness

\* ------------------------------------------------------------------------
\* Tree and array walks used by the properties
\* ------------------------------------------------------------------------
RECURSIVE Depth(_)
Depth(node) ==
  IF node.kind = "interior" THEN 1 + Max2(Depth(node.left), Depth(node.right)) ELSE 0

RECURSIVE Size(_)
Size(node) ==
  IF node.kind = "interior" THEN 1 + Size(node.left) + Size(node.right) ELSE 1

\* leaves of the pointer tree, depth first, left to right
RECURSIVE TreeLeaves(_)
TreeLeaves(node) ==
  IF node.kind = "interior" THEN TreeLeaves(node.left) \o TreeLeaves(node.right)
  ELSE << node >>

\* leaves of the flattened array reached from index i with left = i + 1 and
\* right = the stored index; fuel stops a walk over a malformed array
RECURSIVE FlatLeaves(_, _, _)
FlatLeaves(nodes, i, fuel) ==
  IF fuel = 0 \/ i < 0 \/ i >= Len(nodes) THEN << >>
  ELSE IF nodes[i + 1].isLeaf THEN << nodes[i + 1] >>
  ELSE FlatLeaves(nodes, i + 1, fuel - 1)
         \o FlatLeaves(nodes, nodes[i + 1].rightChild, fuel - 1)

Built == pc # "create"
Built2 == Built /\ bvhVersion = 2

TreeLeafTriangles(leaf) ==
  IF bvhVersion = 2 THEN leaf.triangles ELSE << leaf.triangleIndex >>
FlatLeafTriangles(n) ==
  IF bvhVersion = 2
  THEN [ i \in 1..n.nbTris |-> flat.primitives[n.triangleIndex + i] ]
  ELSE << n.triangleIndex >>

\* ------------------------------------------------------------------------
\* C1: when rayTrace over the flattened tree returns, it reports a hit
\* exactly when the loop over all triangles (raytracing.wgsl) finds one, and
\* with the same t.
\* ------------------------------------------------------------------------
ClosestHitMatchesBruteForce ==
  pc = "traced" =>
    LET b == rayTraceBruteForce(indices, ray)
    IN /\ found_hit = b.found_hit
       /\ found_hit => FEq(hit.t, b.hit.t)

\* ------------------------------------------------------------------------
\* C3: the light's radiance is added exactly when no triangle is hit by the
\* shadow ray at a t strictly between the epsilon and the light distance (the
\* parameter 1 of a ray whose direction is lightVec).
\* ------------------------------------------------------------------------
SomeHitBeforeLight ==
  \E tri \in 0..(Len(indices) - 1) :
    LET c == rayTriangleHit(indices, ray, tri)
    IN FLess(Fin(0, 1), c.t) /\ FLess(c.t, Fin(1, 1))

LightAddedIffUnblocked ==
  pc = "shaded" => (lightAdded <=> ~SomeHitBeforeLight)

RECURSIVE InteriorBoxesAreUnions(_)
InteriorBoxesAreUnions(node) ==
  node.kind = "interior" =>
    /\ \A a \in 1..3 :
         /\ node.boundingBox.minCorner[a] =
              Min2(node.left.boundingBox.minCorner[a], node.right.boundingBox.minCorner[a])
         /\ node.boundingBox.maxCorner[a] =
              Max2(node.left.boundingBox.maxCorner[a], node.right.boundingBox.maxCorner[a])
    /\ InteriorBoxesAreUnions(node.left)
    /\ InteriorBoxesAreUnions(node.right)

RootBoundsEveryVertex ==
  \A t \in 0..(Len(indices) - 1), v \in 0..2, a \in 0..2 :
    /\ bvhRoot.boundingBox.minCorner[a + 1] <= Position(Index(indices, t, v), a)
    /\ Position(Index(indices, t, v), a) <= bvhRoot.boundingBox.maxCorner[a + 1]

RootIsUnionOfLeaves ==
  LET leaves == TreeLeaves(bvhRoot)
  IN \A a \in 1..3 :
       /\ bvhRoot.boundingBox.minCorner[a] =
            SetMin({ leaves[i].boundingBox.minCorner[a] : i \in 1..Len(leaves) })
       /\ bvhRoot.boundingBox.maxCorner[a] =
            SetMax({ leaves[i].boundingBox.maxCorner[a] : i \in 1..Len(leaves) })

BoxesAreExactUnions ==
  Built => /\ InteriorBoxesAreUnions(bvhRoot)
           /\ RootBoundsEveryVertex
           /\ RootIsUnionOfLeaves

TwoLevelTreeBuilt ==
  /\ Built
  /\ Depth(bvhRoot) >= 2

\* ------------------------------------------------------------------------
\* C8: in the flattened array the left child of the interior node at index i
\* is the node at i + 1 and its stored rightChild is i + 1 + the number of
\* nodes of its left subtree, where its right subtree starts.
\* ------------------------------------------------------------------------
RECURSIVE SubtreeAt(_, _)
SubtreeAt(node, i) ==
  /\ i < Len(flat.nodes)
  /\ flat.nodes[i + 1].isLeaf = (node.kind = "leaf")
  /\ flat.nodes[i + 1].minCorner = node.boundingBox.minCorner
  /\ flat.nodes[i + 1].maxCorner = node.boundingBox.maxCorner
  /\ node.kind = "interior" =>
       /\ flat.nodes[i + 1].leftChild = i + 1
       /\ flat.nodes[i + 1].rightChild = i + 1 + Size(node.left)
       /\ SubtreeAt(node.left, i + 1)
       /\ SubtreeAt(node.right, i + 1 + Size(node.left))

ChildIndicesFollowLayout ==
  Built => SubtreeAt(bvhRoot, 0)

InteriorBelowRootFlattened ==
  /\ Built
  /\ \E i \in 2..Len(flat.nodes) : ~flat.nodes[i].isLeaf

\* ------------------------------------------------------------------------
\* C9: the walk of the flattened array from index 0 (left = index + 1,
\* right = stored index) meets the same leaves, with the same boxes and the
\* same triangles, in the same order as the depth-first walk of the tree.
\* ------------------------------------------------------------------------
SameLeaf(n, leaf) ==
  /\ n.minCorner = leaf.boundingBox.minCorner
  /\ n.maxCorner = leaf.boundingBox.maxCorner
  /\ FlatLeafTriangles(n) = TreeLeafTriangles(leaf)

FlattenPreservesLeafWalk ==
  Built =>
    LET fl == FlatLeaves(flat.nodes, 0, Len(flat.nodes))
        tl == TreeLeaves(bvhRoot)
    IN /\ Len(fl) = Len(tl)
       /\ \A k \in 1..Len(tl) : SameLeaf(fl[k], tl[k])

ThreeLeavesWalked ==
  /\ Built
  /\ Len(TreeLeaves(bvhRoot)) >= 3
  /\ TreeLeafTriangles(TreeLeaves(bvhRoot)[1]) # << 0 >>

\* ------------------------------------------------------------------------
\* C10: after flattenBVH (SAH revision) every leaf's range
\* [triangleIndex, triangleIndex + nbTris) lies inside primitives and holds
\* that leaf's triangles; the ranges are pairwise disjoint and cover
\* primitives, which is a permutation of the input triangle indices.
\* ------------------------------------------------------------------------
LeafRange(n) == { i \in 0..(Len(flat.primitives) - 1) :
                    n.triangleIndex <= i /\ i < n.triangleIndex + n.nbTris }

LeafRangesPartitionPrimitives ==
  Built2 =>
    LET fl == FlatLeaves(flat.nodes, 0, Len(flat.nodes))
        tl == TreeLeaves(bvhRoot)
        P == flat.primitives
    IN /\ Len(fl) = Len(tl)
       /\ \A k \in 1..Len(fl) :
            /\ fl[k].triangleIndex >= 0
            /\ fl[k].nbTris >= 0
            /\ fl[k].triangleIndex + fl[k].nbTris <= Len(P)
            /\ FlatLeafTriangles(fl[k]) = tl[k].triangles
       /\ \A j, k \in 1..Len(fl) : j # k => LeafRange(fl[j]) \cap LeafRange(fl[k]) = {}
       /\ UNION { LeafRange(fl[k]) : k \in 1..Len(fl) } = 0..(Len(P) - 1)
       /\ Len(P) = Len(indices)
       /\ Range(P) = 0..(Len(indices) - 1)

PrimitivesReordered ==
  /\ Built2
  /\ Len(flat.primitives) >= 3
  /\ flat.primitives # AllTriangles(indices)

\* ------------------------------------------------------------------------
\* The pick protocol of a created engine: clicks, the device queue, the
\* mapping of the shared readback buffer, frames and the effect cleanup
\* ------------------------------------------------------------------------
PickCoords == { <<0, 0>>, <<2, 2>> }

\* ray_at on the uniforms u
RayAt(u, screenCoord) ==
  LET cam == UniformCamera(u)
      horizontal == screenCoord[1] * cam.fov_factor * cam.aspect_ratio
      vertical == screenCoord[2] * cam.fov_factor
  IN [ origin |-> cam.camera_pos,
       direction |-> << cam.camera_forward[1] + horizontal * cam.camera_right[1]
                          + vertical * cam.camera_up[1],
                        cam.camera_forward[2] + horizontal * cam.camera_right[2]
                          + vertical * cam.camera_up[2],
                        cam.camera_forward[3] + horizontal * cam.camera_right[3]
                          + vertical * cam.camera_up[3] >> ]

ray_at(screenCoord) == RayAt(uniformBuffer, screenCoord)

PickScenes == { s \in Scenes : Len(s) <= 2 }

\* material id of each scene object, in the order of scene.objects
ObjectMaterialIds == <<0, 1, 2, 3>>

\* scene.objects.findIndex(obj => obj.material.id === id), 0-based, -1 if none
findIndex(id) ==
  LET found == { i \in 1..Len(ObjectMaterialIds) : ObjectMaterialIds[i] = id }
  IN IF found = {} THEN -1 ELSE SetMin(found) - 1

QueueOp(op, coords, call) == [op |-> op, coords |-> coords, call |-> call]

\* state right after createEngine resolved and the effect stored the engine
InitPick ==
  /\ indices \in PickScenes
  /\ bvhVersion \in {1, 2}
  /\ nanPolicy \in NanPolicies
  /\ bvhRoot = buildSceneBVH(indices, bvhVersion)
  /\ flat = flattenBVH(bvhRoot, bvhVersion)
  /\ bvh = PackBVH(flat.nodes)
  /\ pc = "ready"
  /\ TraversalIdle
  /\ pick_result = 0
  /\ lightAdded = FALSE
  /\ engineRef = "engine"
  /\ destroyed = FALSE
  /\ queue = << >>
  /\ pickCoordsBuffer = <<0, 0>>
  /\ readbackBuffer = [mapState |-> "unmapped", data |-> 0]
  /\ calls = [c \in CallIds |-> IdleCall]
  /\ selectedObject = -1
  /\ frameCount = 0
  /\ AuxIdle

\* queue.submit() is dropped by validation and mapAsync() rejects while the
\* buffer has a pending map or is mapped
ReadbackAvailable == readbackBuffer.mapState = "unmapped"

\* handleCanvasClick up to its await: the synchronous part of pickObject
HandleCanvasClick(c, xy) ==
  /\ engineRef = "engine"
  /\ calls[c].state = "idle"
  /\ \A c2 \in CallIds : c2 < c => calls[c2].state # "idle"
  /\ IF destroyed
     THEN /\ calls' = [calls EXCEPT ![c] = [state |-> "resolved", coords |-> xy,
                                            result |-> -1]]
          /\ UNCHANGED << queue, readbackBuffer >>
     ELSE /\ queue' = queue \o << QueueOp("writeCoords", xy, c) >>
                        \o (IF ReadbackAvailable THEN << QueueOp("pick", xy, c) >>
                            ELSE << >>)
                        \o (IF ReadbackAvailable THEN << QueueOp("map", xy, c) >>
                            ELSE << >>)
          /\ readbackBuffer' = IF ReadbackAvailable
                               THEN [readbackBuffer EXCEPT !.mapState = "pending"]
                               ELSE readbackBuffer
          /\ calls' = [calls EXCEPT ![c] =
                         [state |-> IF ReadbackAvailable THEN "awaiting" ELSE "rejected",
                          coords |-> xy, result |-> 0]]
  /\ UNCHANGED auxVars
  /\ UNCHANGED << geomVars, travVars, pc, pick_result, lightAdded, engineRef, destroyed,
                  pickCoordsBuffer, selectedObject, frameCount >>

\* the device executes writeBuffer(pickCoordsBuffer, ...)
GpuWriteCoords ==
  /\ queue # << >>
  /\ Head(queue).op = "writeCoords"
  /\ pickCoordsBuffer' = Head(queue).coords
  /\ queue' = Tail(queue)
  /\ UNCHANGED auxVars
  /\ UNCHANGED << geomVars, travVars, pc, pick_result, lightAdded, engineRef, destroyed,
                  readbackBuffer, calls, selectedObject, frameCount >>

\* the device executes the compute pass (pick_main) and the copy to readbackBuffer
GpuPick ==
  /\ queue # << >>
  /\ Head(queue).op = "pick"
  /\ LET r == rayTrace(nanPolicy, indices, bvh, ray_at(pickCoordsBuffer))
         id == pick_main(indices, r.found_hit, r.hit)
     IN /\ pick_result' = id
        /\ readbackBuffer' = [readbackBuffer EXCEPT !.data = id]
  /\ queue' = Tail(queue)
  /\ UNCHANGED auxVars
  /\ UNCHANGED << geomVars, travVars, pc, lightAdded, engineRef, destroyed,
                  pickCoordsBuffer, calls, selectedObject, frameCount >>

\* the device executes the render pass of a frame
GpuRender ==
  /\ queue # << >>
  /\ Head(queue).op = "render"
  /\ queue' = Tail(queue)
  /\ UNCHANGED auxVars
  /\ UNCHANGED << geomVars, travVars, pc, pick_result, lightAdded, engineRef, destroyed,
                  pickCoordsBuffer, readbackBuffer, calls, selectedObject, frameCount >>

\* mapAsync resolves once the work submitted before it is done; pickObject
\* reads the id, unmaps and returns; handleCanvasClick selects the object
MapResolved ==
  /\ queue # << >>
  /\ Head(queue).op = "map"
  /\ LET c == Head(queue).call
         id == readbackBuffer.data
     IN /\ calls' = [calls EXCEPT ![c].state = "resolved", ![c].result = id]
        /\ selectedObject' = IF id < 0 \/ findIndex(id) = -1 THEN selectedObject
                             ELSE findIndex(id)
  /\ readbackBuffer' = [readbackBuffer EXCEPT !.mapState = "unmapped"]
  /\ queue' = Tail(queue)
  /\ UNCHANGED auxVars
  /\ UNCHANGED << geomVars, travVars, pc, pick_result, lightAdded, engineRef, destroyed,
                  pickCoordsBuffer, frameCount >>

\* animationLoop / renderFrame: one more frame submitted
RenderFrame ==
  /\ ~destroyed
  /\ frameCount < MaxFrames
  /\ queue' = Append(queue, QueueOp("render", <<0, 0>>, 0))
  /\ frameCount' = frameCount + 1
  /\ UNCHANGED auxVars
  /\ UNCHANGED << geomVars, travVars, pc, pick_result, lightAdded, engineRef, destroyed,
                  pickCoordsBuffer, readbackBuffer, calls, selectedObject >>

\* cleanup of the [selectedModel] effect: engine.destroy(), engineRef = null.
\* device.destroy() drops the queued work and rejects a pending mapAsync.
Cleanup ==
  /\ engineRef = "engine"
  /\ destroyed' = TRUE
  /\ engineRef' = "null"
  /\ queue' = << >>
  /\ readbackBuffer' = [readbackBuffer EXCEPT !.mapState = "unmapped"]
  /\ calls' = [c \in CallIds |->
                 IF calls[c].state = "awaiting"
                 THEN [calls[c] EXCEPT !.state = "rejected"]
                 ELSE calls[c]]
  /\ UNCHANGED auxVars
  /\ UNCHANGED << geomVars, travVars, pc, pick_result, lightAdded, pickCoordsBuffer,
                  selectedObject, frameCount >>

NextPick ==
  \/ \E c \in CallIds, xy \in PickCoords : HandleCanvasClick(c, xy)
  \/ GpuWriteCoords
  \/ GpuPick
  \/ GpuRender
  \/ MapResolved
  \/ RenderFrame
  \/ Cleanup

SpecPick == InitPick /\ [][NextPick]_vars

\* ------------------------------------------------------------------------
\* C2: a pickObject call that resolves delivers the material id stored for
\* the first vertex of the triangle the traversal reports as closest hit for
\* the call's own pick ray, and -1 when the traversal reports no hit.
\* ------------------------------------------------------------------------
ExpectedPick(xy) ==
  LET r == rayTrace(nanPolicy, indices, bvh, ray_at(xy))
  IN IF r.found_hit THEN VertexObjectIds[indices[r.hit.triIndex + 1][1] + 1] ELSE -1

NoPickRejects ==
  ~destroyed => \A c \in CallIds : calls[c].state # "rejected"

\* ------------------------------------------------------------------------
\* C12: the engine is not destroyed while a pickObject dispatched against it
\* is still awaiting its result.
\* ------------------------------------------------------------------------
EngineOutlivesAwaitingPicks ==
  [][(~destroyed /\ destroyed') => \A c \in CallIds : calls[c].state # "awaiting"]_vars

\* ------------------------------------------------------------------------
\* Walks and views of the builder used by the properties
\* ------------------------------------------------------------------------
\* all nodes of the pointer tree, depth first
RECURSIVE TreeNodes(_)
TreeNodes(node) ==
  IF node.kind = "interior"
  THEN << node >> \o TreeNodes(node.left) \o TreeNodes(node.right)
  ELSE << node >>

\* number of triangles below a node of the SAH tree
RECURSIVE TriangleCount(_)
TriangleCount(node) ==
  IF node.kind = "interior" THEN TriangleCount(node.left) + TriangleCount(node.right)
  ELSE Len(node.triangles)

BuiltSAH == pc = "built" /\ bvhVersion = 2

\* the call at the top of work runs partitionSAH
PartitionSAHCalled ==
  /\ pc = "build"
  /\ bvhVersion = 2
  /\ work # << >>
  /\ ~EmitsLeaf(Head(work).triangleSet, Head(work).depth)

SplitAt(sorted, k) == << Slice(sorted, 0, k), Slice(sorted, k, Len(sorted)) >>

\* what partitionSAH computes in a call on triangleSet: the sorted primitives,
\* 3 * range, the split indices of the candidate thresholds that leave both
\* sides nonempty, and the split index it returns
SAHCall(idx, triangleSet) ==
  LET axis == dominantAxis(getTriangleSetAABB(idx, triangleSet))
      sorted == SortByCenter(idx, axis, triangleSet)
      n == Len(sorted)
  IN [ sorted |-> sorted,
       range3 |-> Center3(idx, sorted[n], axis) - Center3(idx, sorted[1], axis),
       candidates |-> { SplitIndex(idx, axis, sorted, b) : b \in 1..(nb_buckets - 1) }
                        \cap 1..(n - 1),
       split |-> Len(partitionSAH(idx, triangleSet, axis)[1]),
       parts |-> partitionSAH(idx, triangleSet, axis) ]

\* ------------------------------------------------------------------------
\* C16: in a tree of the SAH builder a node is a leaf exactly when its set
\* has at most one primitive or its depth is the cap; no node is deeper than
\* the cap and a leaf above the cap holds at most one primitive.
\* ------------------------------------------------------------------------
RECURSIVE LeafRuleHolds(_, _)
LeafRuleHolds(node, depth) ==
  IF node.kind = "interior"
  THEN /\ TriangleCount(node) > 1
       /\ depth < DepthCap
       /\ LeafRuleHolds(node.left, depth + 1)
       /\ LeafRuleHolds(node.right, depth + 1)
  ELSE Len(node.triangles) <= 1 \/ depth = DepthCap

LeavesExactlyWhereRuleSays ==
  BuiltSAH => LeafRuleHolds(bvhRoot, 0) /\ Depth(bvhRoot) <= DepthCap

DepthCapForcedLeaf ==
  /\ BuiltSAH
  /\ Depth(bvhRoot) = DepthCap
  /\ \E i \in 1..Len(TreeLeaves(bvhRoot)) : Len(TreeLeaves(bvhRoot)[i].triangles) > 1

\* ------------------------------------------------------------------------
\* C17: partitionSAH cuts the centroid-sorted primitives at floor(n / 2) when
\* the centroid range is zero or no candidate leaves both sides nonempty, and
\* at the split index of a candidate in every other case.
\* ------------------------------------------------------------------------
FallsBackToMedianOnlyWhenDegenerate ==
  PartitionSAHCalled =>
    LET call == SAHCall(indices, Head(work).triangleSet)
    IN IF call.range3 = 0 \/ call.candidates = {}
       THEN call.parts = SplitAt(call.sorted, Len(call.sorted) \div 2)
       ELSE \E k \in call.candidates : call.parts = SplitAt(call.sorted, k)

MedianFallbackTaken ==
  /\ PartitionSAHCalled
  /\ Len(Head(work).triangleSet) >= 4
  /\ SAHCall(indices, Head(work).triangleSet).range3 = 0

\* ------------------------------------------------------------------------
\* C18: when a candidate leaves both sides nonempty, the split partitionSAH
\* returns costs no more than any candidate.
\* ------------------------------------------------------------------------
ReturnedSplitHasMinimumCost ==
  PartitionSAHCalled =>
    LET call == SAHCall(indices, Head(work).triangleSet)
        cost == SplitCost(indices, call.sorted, call.split)
    IN (call.range3 > 0 /\ call.candidates # {}) =>
         \A k \in call.candidates : cost <= SplitCost(indices, call.sorted, k)

CheaperLaterCandidateChosen ==
  /\ PartitionSAHCalled
  /\ LET call == SAHCall(indices, Head(work).triangleSet)
         cost == SplitCost(indices, call.sorted, call.split)
     IN /\ call.range3 > 0
        /\ \E k \in call.candidates :
             k < call.split /\ cost < SplitCost(indices, call.sorted, k)

\* ------------------------------------------------------------------------
\* C19: the construction terminates and returns a tree, for every scene,
\* the degenerate ones included.
\* ------------------------------------------------------------------------
BuilderTerminates == <>(pc = "built")

DegenerateSceneBuilt ==
  /\ pc = "built"
  /\ indices = PileScene(MaxPile)
  /\ bvhRoot.kind = "interior"

\* ------------------------------------------------------------------------
\* C20: every box of a built tree has min <= max on each axis.
\* ------------------------------------------------------------------------
EveryBoxOrdered ==
  pc = "built" =>
    \A i \in 1..Len(TreeNodes(bvhRoot)) : \A a \in 1..3 :
      TreeNodes(bvhRoot)[i].boundingBox.minCorner[a]
        <= TreeNodes(bvhRoot)[i].boundingBox.maxCorner[a]

\* ------------------------------------------------------------------------
\* C15: every leaf the traversal has popped names a triangle of the scene
\* (the triangle index rayTriangleHit is called with is below the number of
\* triangles), also in a scene without triangles.
\* ------------------------------------------------------------------------
TraversalTestsOnlySceneTriangles ==
  \A i \in 1..Len(popped) :
    bvh[popped[i] + 1].isLeaf # 0 => bvh[popped[i] + 1].triangleIdx < Len(indices)

\* ------------------------------------------------------------------------
\* The engine after createEngine: the calls of its public API, the animation
\* loop, the keyboard camera and the device executing the submitted frames
\* ------------------------------------------------------------------------
\* an optional argument of updateMaterial
NotGiven == [given |-> FALSE, value |-> 0]
Given(v) == [given |-> TRUE, value |-> v]

EngineScenes == { << <<0, 1, 2>>, <<3, 5, 4>> >> }
MaterialIndexInputs == { -1, 1 }
ColorInputs == { <<5, 6, 7>> }
RoughnessInputs == { NotGiven, Given(9) }
BounceInputs == { 1, 3 }
\* elapsed time of a frame, counted in quarter turns of the rotating light
ElapsedInputs == { 2 }
DepthInputs == { 1 }
Pixels == << <<0, 0>>, <<2, 2>> >>

\* cos and sin of the light's angle after q quarter turns
CosQuarter(q) == CASE q % 4 = 0 -> 1 [] q % 4 = 2 -> -1 [] OTHER -> 0
SinQuarter(q) == CASE q % 4 = 1 -> 1 [] q % 4 = 3 -> -1 [] OTHER -> 0

\* renderFrame, "if (animating)": scene.lights[3] moves on its orbit and
\* points at the centre of the box; on the half turns used here the
\* direction (278 - lx, 274 - ly, 280 - lz) / len has integer components
AnimateLight(sc, elapsed) ==
  LET lx == 278 + 220 * CosQuarter(elapsed)
      lz == 280 + 220 * SinQuarter(elapsed)
      ly == 274 + 180 * SinQuarter(elapsed)
      len == 220
  IN [ sc EXCEPT !.lights[4].position = << lx, ly, lz >>,
                 !.lights[4].direction = << (278 - lx) \div len, (274 - ly) \div len,
                                            (280 - lz) \div len >> ]

FrameOp(data, raytraced) == [op |-> "frame", data |-> data, raytraced |-> raytraced]

\* renderFrame(timestamp) on the scene sc: the light animation, updateUniforms,
\* the render pass with the pipeline useRaytracer selects, submit, frameCount++.
\* writeBuffer and the submit that follows it reach the device in this order,
\* so the frame is one operation of the queue carrying its uniforms.
renderFrame(sc, elapsed) ==
  LET lit == IF animating THEN AnimateLight(sc, elapsed) ELSE sc
      data == packUniforms(lit, nbBounces, elapsed)
  IN /\ scene' = lit
     /\ packed' = data
     /\ queue' = IF data.threw THEN queue
                 ELSE Append(queue, FrameOp(data.out, useRaytracer))
     /\ frameCount' = IF data.threw THEN frameCount ELSE frameCount + 1

EngineCalled == engineRef = "engine"

StartAnimation ==
  /\ EngineCalled
  /\ animating' = TRUE
  /\ UNCHANGED << geomVars, travVars, engineVars, pc, pick_result, lightAdded, work, extVars,
                  scene,
                  nbBounces, useRaytracer, packed, uniformBuffer, rendered, aabbIndexCount >>

StopAnimation ==
  /\ EngineCalled
  /\ animating' = FALSE
  /\ UNCHANGED << geomVars, travVars, engineVars, pc, pick_result, lightAdded, work, extVars,
                  scene,
                  nbBounces, useRaytracer, packed, uniformBuffer, rendered, aabbIndexCount >>

SetUseRaytracer(val) ==
  /\ EngineCalled
  /\ useRaytracer' = val
  /\ UNCHANGED << geomVars, travVars, engineVars, pc, pick_result, lightAdded, work, extVars,
                  scene,
                  nbBounces, animating, packed, uniformBuffer, rendered, aabbIndexCount >>

SetNbBounces(val) ==
  /\ EngineCalled
  /\ nbBounces' = val
  /\ UNCHANGED << geomVars, travVars, engineVars, pc, pick_result, lightAdded, work, extVars,
                  scene,
                  animating, useRaytracer, packed, uniformBuffer, rendered, aabbIndexCount >>

\* updateMaterial: the material object of scene.objects[idx] is edited in
\* place (it is the object the materials array holds), then a frame is
\* rendered; an index that names no object does nothing
UpdateMaterial(idx, rgb, roughness, metalness) ==
  /\ EngineCalled
  /\ idx >= 0 /\ idx < Len(ObjectMaterialIds)
  /\ LET m == ObjectMaterialIds[idx + 1] + 1
         edited == [ scene EXCEPT
                       !.materials[m].diffuseAlbedo = rgb,
                       !.materials[m].roughness =
                          IF roughness.given THEN roughness.value ELSE @,
                       !.materials[m].metalness =
                          IF metalness.given THEN metalness.value ELSE @ ]
     IN IF destroyed
        THEN /\ scene' = edited
             /\ UNCHANGED << packed, queue, frameCount >>
        ELSE /\ frameCount < MaxRenders
             /\ \E elapsed \in ElapsedInputs : renderFrame(edited, elapsed)
  /\ UNCHANGED << geomVars, travVars, pc, pick_result, lightAdded, work, extVars, engineRef,
                  destroyed, pickCoordsBuffer, readbackBuffer, calls, selectedObject,
                  nbBounces, animating, useRaytracer, uniformBuffer, rendered,
                  aabbIndexCount >>

\* "if (depth === 0 || node.kind === "leaf") return [node.boundingBox]"
RECURSIVE getAABBsAtDepth(_, _)
getAABBsAtDepth(node, depth) ==
  IF depth = 0 \/ node.kind = "leaf" THEN << node.boundingBox >>
  ELSE getAABBsAtDepth(node.left, depth - 1) \o getAABBsAtDepth(node.right, depth - 1)

\* the 8 corners pushed for a box, in the order of the source
BoxCorners(aabb) ==
  LET mn == aabb.minCorner
      mx == aabb.maxCorner
  IN << << mn[1], mn[2], mn[3] >>, << mx[1], mn[2], mn[3] >>,
        << mn[1], mx[2], mn[3] >>, << mx[1], mx[2], mn[3] >>,
        << mn[1], mn[2], mx[3] >>, << mx[1], mn[2], mx[3] >>,
        << mn[1], mx[2], mx[3] >>, << mx[1], mx[2], mx[3] >> >>

\* "const edges = [..]": bottom face, top face, vertical edges
BoxEdges ==
  << 0, 1, 1, 3, 3, 2, 2, 0, 4, 5, 5, 7, 7, 6, 6, 4, 0, 4, 1, 5, 2, 6, 3, 7 >>

\* variant: every box indexes the vertices of the first box
BoxBaseZero(positions) == 0

\* "const base = positions.length / 3", positions held as vertices here
BoxBase(positions) == Len(positions)

\* the loop "for (const aabb of aabbs)", acc = [positions, indices]
RECURSIVE WireframeLoop(_, _, _)
WireframeLoop(aabbs, k, acc) ==
  IF k > Len(aabbs) THEN acc
  ELSE LET base == BoxBase(acc.positions)
       IN WireframeLoop(aabbs, k + 1,
            [ positions |-> acc.positions \o BoxCorners(aabbs[k]),
              indices |-> acc.indices \o [ j \in 1..Len(BoxEdges) |-> base + BoxEdges[j] ] ])

createAABBWireframe(aabbs) ==
  WireframeLoop(aabbs, 1, [positions |-> << >>, indices |-> << >>])

\* setDebugAABBs(getAABBsAtDepth(bvhRoot, depth)): the wireframe buffers are
\* written and the index count kept for the draw call
SetDebugAABBs(depth) ==
  /\ EngineCalled
  /\ LET aabbs == getAABBsAtDepth(bvhRoot, depth)
         mesh == createAABBWireframe(aabbs)
     IN /\ wireframe' = [ depth |-> depth, aabbs |-> aabbs,
                          positions |-> mesh.positions, indices |-> mesh.indices ]
        /\ aabbIndexCount' = Len(mesh.indices)
  /\ UNCHANGED << geomVars, travVars, engineVars, pc, pick_result, lightAdded, work,
                  scene, nbBounces, animating, useRaytracer, packed, uniformBuffer,
                  rendered, merged, radiance, hostVars >>

\* keyboard tick: moveForward(cam, sp) along the camera's forward axis
MoveCamera ==
  /\ EngineCalled
  /\ scene.camera.camera_pos[3] > -MaxCameraSteps
  /\ scene' = [scene EXCEPT !.camera.camera_pos[3] = @ - 1]
  /\ UNCHANGED << geomVars, travVars, engineVars, pc, pick_result, lightAdded, work, extVars,
                  nbBounces, animating, useRaytracer, packed, uniformBuffer, rendered,
                  aabbIndexCount >>

\* animationLoop: "if (destroyed) return; renderFrame(timestamp)"
AnimationLoop ==
  /\ ~destroyed
  /\ frameCount < MaxRenders
  /\ \E elapsed \in ElapsedInputs : renderFrame(scene, elapsed)
  /\ UNCHANGED << geomVars, travVars, pc, pick_result, lightAdded, work, extVars, engineRef,
                  destroyed, pickCoordsBuffer, readbackBuffer, calls, selectedObject,
                  nbBounces, animating, useRaytracer, uniformBuffer, rendered,
                  aabbIndexCount >>

\* "const MAX_BOUNCES = 2u"
MAX_BOUNCES == 2

\* "if (all(throughput * F < vec3f(0.001))) { break; }" on the first bounce,
\* where throughput is 1 and F = f_0 + (1 - f_0) * pow(..) lies between f_0
\* and 1: the loop can stop only when every component of f_0 is below 0.001
\* (Fresnel terms are in thousandths)
FresnelMayStop(u, objectId) ==
  \A k \in 1..3 : UniformMaterial(u, objectId).fresnel[k] < 1

\* rayFragmentMain: how many iterations of the bounce loop run their
\* closest-hit query.  found: whether the query of this iteration hits;
\* stops: whether the Fresnel test ends the loop; later: whether the queries
\* on the reflected rays hit (their origin and direction come from the
\* interpolated normals, which are inputs here)
RECURSIVE BounceLoop(_, _, _, _)
BounceLoop(bounce, found, stops, later) ==
  IF bounce >= MAX_BOUNCES THEN 0
  ELSE IF ~found \/ stops THEN 1
  ELSE 1 + BounceLoop(bounce + 1, later, stops, later)

FragmentIterations(u, screen_pos, stops, later) ==
  LET first == rayTrace(nanPolicy, indices, bvh, RayAt(u, screen_pos))
      objectId == pick_main(indices, first.found_hit, first.hit)
  IN BounceLoop(0, first.found_hit,
                first.found_hit /\ stops /\ FresnelMayStop(u, objectId), later)

\* the device executes a frame: the uniforms are written, then the render
\* pass runs rayFragmentMain on every pixel when the ray pipeline was set
GpuFrame ==
  /\ queue # << >>
  /\ Head(queue).op = "frame"
  /\ uniformBuffer' = Head(queue).data
  /\ \E stops \in BOOLEAN, later \in BOOLEAN :
       rendered' = [ frame |-> rendered.frame + 1,
                     raytraced |-> Head(queue).raytraced,
                     iterations |->
                       IF Head(queue).raytraced
                       THEN [ k \in 1..Len(Pixels) |->
                                FragmentIterations(Head(queue).data, Pixels[k], stops, later) ]
                       ELSE << >> ]
  /\ queue' = Tail(queue)
  /\ UNCHANGED << geomVars, travVars, pc, pick_result, lightAdded, work, extVars, engineRef,
                  destroyed, pickCoordsBuffer, readbackBuffer, calls, selectedObject,
                  frameCount, scene, nbBounces, animating, useRaytracer, packed,
                  aabbIndexCount >>

\* the state createEngine leaves for a scene of sceneSet
EngineCreatedOver(sceneSet) ==
  /\ indices \in sceneSet
  /\ bvhVersion \in {1, 2}
  /\ nanPolicy = "select"
  /\ bvhRoot = buildSceneBVH(indices, bvhVersion)
  /\ flat = flattenBVH(bvhRoot, bvhVersion)
  /\ bvh = PackBVH(flat.nodes)
  /\ pc = "ready"
  /\ TraversalIdle
  /\ pick_result = 0
  /\ lightAdded = FALSE
  /\ engineRef = "engine"
  /\ destroyed = FALSE
  /\ queue = << >>
  /\ pickCoordsBuffer = <<0, 0>>
  /\ readbackBuffer = [mapState |-> "unmapped", data |-> 0]
  /\ calls = [c \in CallIds |-> IdleCall]
  /\ selectedObject = -1
  /\ frameCount = 0
  /\ AuxIdle

InitEngine == EngineCreatedOver(EngineScenes)

NextEngine ==
  \/ StartAnimation
  \/ StopAnimation
  \/ \E val \in BOOLEAN : SetUseRaytracer(val)
  \/ \E val \in BounceInputs : SetNbBounces(val)
  \/ \E idx \in MaterialIndexInputs, rgb \in ColorInputs, roughness \in RoughnessInputs :
       UpdateMaterial(idx, rgb, roughness, NotGiven)
  \/ \E depth \in DepthInputs : SetDebugAABBs(depth)
  \/ MoveCamera
  \/ AnimationLoop
  \/ GpuFrame
  \/ HandleCanvasClick(1, Pixels[1])
  \/ GpuWriteCoords
  \/ GpuPick
  \/ MapResolved

SpecEngine == InitEngine /\ [][NextEngine]_vars

\* ------------------------------------------------------------------------
\* The debug wireframe alone: the depth slider over trees of several shapes
\* ------------------------------------------------------------------------
DebugScenes == Scenes \cup { SpreadScene, ChainScene(4), ChainScene(5) }

InitDebug == EngineCreatedOver(DebugScenes)

NextDebug == \E depth \in 0..MaxDebugDepth : SetDebugAABBs(depth)

SpecDebug == InitDebug /\ [][NextDebug]_vars

\* ------------------------------------------------------------------------
\* scene.ts: extractSceneData, with transformMesh and merge_meshes of the
\* mesh module.  A mesh is [positions, indices], positions one triple per
\* vertex; an object is [mesh, material, transform], the transform a
\* translation.
\* ------------------------------------------------------------------------
MeshPool ==
  { [positions |-> << <<0, 0, 0>>, <<1, 0, 0>>, <<0, 1, 0>> >>, indices |-> <<0, 1, 2>>],
    [positions |-> << <<0, 0, 0>>, <<1, 0, 0>>, <<1, 1, 0>>, <<0, 1, 0>> >>,
     indices |-> <<0, 1, 2, 0, 2, 3>>],
    [positions |-> << >>, indices |-> << >>] }

\* materials with ids 0, 1 and 3 (2 is a gap), and a second material with id 0
MaterialPool ==
  { SceneMaterial(0), SceneMaterial(1), SceneMaterial(3),
    [SceneMaterial(0) EXCEPT !.roughness = 1] }

ObjectPool ==
  { [mesh |-> mesh, material |-> material, transform |-> <<10, 0, 0>>] :
      mesh \in MeshPool, material \in MaterialPool }

ExtractScenes ==
  UNION { [1..k -> ObjectPool] : k \in 0..MaxObjects }

transformMesh(mesh, m) ==
  [ positions |-> [ i \in 1..Len(mesh.positions) |->
                      << mesh.positions[i][1] + m[1], mesh.positions[i][2] + m[2],
                         mesh.positions[i][3] + m[3] >> ],
    indices |-> mesh.indices ]

\* variant: the offset advances by positions.length, not by the vertex count
VertexOffsetAfterFloats(vertexOffset, mesh) == vertexOffset + 3 * Len(mesh.positions)

\* "vertexOffset += mesh.positions.length / 3"
VertexOffsetAfter(vertexOffset, mesh) == vertexOffset + Len(mesh.positions)

\* the loop "for (const mesh of meshes)", acc = [positions, indices, vertexOffset]
RECURSIVE MergeLoop(_, _, _)
MergeLoop(meshes, k, acc) ==
  IF k > Len(meshes) THEN acc
  ELSE LET mesh == meshes[k]
       IN MergeLoop(meshes, k + 1,
            [ positions |-> acc.positions \o mesh.positions,
              indices |-> acc.indices
                            \o [ i \in 1..Len(mesh.indices) |-> mesh.indices[i] + acc.vertexOffset ],
              vertexOffset |-> VertexOffsetAfter(acc.vertexOffset, mesh) ])

merge_meshes(meshes) ==
  MergeLoop(meshes, 1, [positions |-> << >>, indices |-> << >>, vertexOffset |-> 0])

\* materialMap after the loop over the objects: a later object with the same
\* material id replaces the entry
MaterialMapGet(objects, id) ==
  LET users == { k \in 1..Len(objects) : objects[k].material.id = id }
  IN IF users = {} THEN [found |-> FALSE, material |-> << >>]
     ELSE [found |-> TRUE, material |-> objects[SetMax(users)].material]

\* "materialMap.get(i) ?? { id: i, .. }": the black default fills a gap
DefaultMaterial(i) ==
  [ id |-> i, diffuseAlbedo |-> <<0, 0, 0>>, roughness |-> 0, fresnel |-> <<0, 0, 0>>,
    metalness |-> 0 ]

\* the ids pushed for the vertices of the objects k.., one per vertex
RECURSIVE ObjectIdsFrom(_, _)
ObjectIdsFrom(objects, k) ==
  IF k > Len(objects) THEN << >>
  ELSE [ i \in 1..Len(objects[k].mesh.positions) |-> objects[k].material.id ]
         \o ObjectIdsFrom(objects, k + 1)

\* ranges: [objectId, indexOffset, indexCount] of the objects k..
RECURSIVE RangesFrom(_, _, _)
RangesFrom(objects, k, offset_counter) ==
  IF k > Len(objects) THEN << >>
  ELSE << [ objectId |-> k - 1, indexOffset |-> offset_counter,
            indexCount |-> Len(objects[k].mesh.indices) ] >>
         \o RangesFrom(objects, k + 1, offset_counter + Len(objects[k].mesh.indices))

extractSceneData(objects) ==
  LET ids == { objects[k].material.id : k \in 1..Len(objects) }
      maxId == IF ids = {} THEN -1 ELSE SetMax(ids)
      raw_meshes == [ k \in 1..Len(objects) |->
                        transformMesh(objects[k].mesh, objects[k].transform) ]
      merged_mesh == merge_meshes(raw_meshes)
  IN [ positions |-> merged_mesh.positions,
       indices |-> merged_mesh.indices,
       objectIds |-> ObjectIdsFrom(objects, 1),
       materials |-> [ j \in 1..(maxId + 1) |->
                         IF MaterialMapGet(objects, j - 1).found
                         THEN MaterialMapGet(objects, j - 1).material
                         ELSE DefaultMaterial(j - 1) ],
       ranges |-> RangesFrom(objects, 1, 0),
       called |-> TRUE ]

\* extractSceneData alone, over scenes of up to MaxObjects objects
InitExtract ==
  /\ indices = << >>
  /\ bvhVersion = 2
  /\ nanPolicy = "select"
  /\ bvhRoot = NoTree
  /\ flat = [nodes |-> << >>, primitives |-> << >>]
  /\ bvh = << >>
  /\ pc = "extract"
  /\ TraversalIdle
  /\ pick_result = 0
  /\ lightAdded = FALSE
  /\ EngineIdle
  /\ ExtIdle
  /\ work = << >>
  /\ \E objects \in ExtractScenes :
       scene = [objects |-> objects, lights |-> << >>, camera |-> Camera]
  /\ nbBounces = 1
  /\ animating = FALSE
  /\ useRaytracer = FALSE
  /\ packed = NotPacked
  /\ uniformBuffer = Float32Array(UNIFORM_LENGTH).out
  /\ rendered = NoFrame
  /\ aabbIndexCount = 0

ExtractSceneData ==
  /\ pc = "extract"
  /\ merged' = extractSceneData(scene.objects)
  /\ pc' = "extracted"
  /\ UNCHANGED << geomVars, travVars, engineVars, pick_result, lightAdded, work, sceneVars,
                  wireframe, radiance, hostVars >>

NextExtract == ExtractSceneData

SpecExtract == InitExtract /\ [][NextExtract]_vars

\* C25: in the data extractSceneData returns, every entry of indices is below
\* the number of merged vertices, the palette has an entry for every id from
\* 0 to the largest id used, the entry at i has id i (the black default where
\* no object uses i), and the material id of every vertex is an index of the
\* palette.
ExtractedDataInRange ==
  pc = "extracted" =>
    LET ids == { scene.objects[k].material.id : k \in 1..Len(scene.objects) }
    IN /\ \A i \in 1..Len(merged.indices) :
            merged.indices[i] >= 0 /\ merged.indices[i] < Len(merged.positions)
       /\ Len(merged.objectIds) = Len(merged.positions)
       /\ ids # {} => Len(merged.materials) = SetMax(ids) + 1
       /\ ids = {} => merged.materials = << >>
       /\ \A j \in 1..Len(merged.materials) :
            /\ merged.materials[j].id = j - 1
            /\ (j - 1) \notin ids => merged.materials[j] = DefaultMaterial(j - 1)
            /\ (j - 1) \in ids =>
                 \E k \in 1..Len(scene.objects) : merged.materials[j] = scene.objects[k].material
       /\ \A v \in 1..Len(merged.objectIds) :
            merged.objectIds[v] >= 0 /\ merged.objectIds[v] < Len(merged.materials)

\* C25 witness: two objects with vertices were merged, the second one's
\* indices were shifted, and the palette has a gap filled with the default
TwoObjectsMergedWithGap ==
  /\ pc = "extracted"
  /\ Len(scene.objects) >= 2
  /\ \E i \in 1..Len(merged.indices) : merged.indices[i] >= Len(scene.objects[1].mesh.positions)
  /\ Len(merged.materials) = 4
  /\ merged.materials[3] = DefaultMaterial(2)

\* ------------------------------------------------------------------------
\* assignment.wgsl: the cone test of evaluateRadiance, on the light as the
\* uniforms carry it (angle in milliradians after packLightsAndMaterials)
\* ------------------------------------------------------------------------
\* length of an integer vector whose length is an integer
Length(v) == CHOOSE l \in 0..(Abs(v[1]) + Abs(v[2]) + Abs(v[3])) : l * l = Dot(v, v)

\* what normalize returns for the zero vector, whose 0 / 0 the GPU may turn
\* into NaN or into 0
ZeroNormalizeOutcomes == { "nan", "zero" }

\* dot(normalize(a), normalize(b))
DotOfNormalized(a, b, zeroNormalize) ==
  IF Length(a) = 0 \/ Length(b) = 0
  THEN (IF zeroNormalize = "nan" THEN NaN ELSE Fin(0, 1))
  ELSE Fin(Dot(a, b), Length(a) * Length(b))

\* cos(coneAngle / 2.0) for the packed values of 0, 180 and 360 degrees
CosHalf(coneAngle) ==
  CASE coneAngle = Radians(0) -> Fin(1, 1)
    [] coneAngle = Radians(180) -> Fin(0, 1)
    [] coneAngle = Radians(360) -> Fin(-1, 1)

\* "let inCone = dot(normalize(light.direction), lightToPoint) >= cos(coneAngle / 2.0)"
\* with lightToPoint = -normalize(light.position - worldPos)
InCone(light, worldPos, zeroNormalize) ==
  FGeq(DotOfNormalized(light.direction, Sub(worldPos, light.position), zeroNormalize),
       CosHalf(light.angle))

ConeLights ==
  { [ position |-> <<0, 0, 0>>, intensity |-> 1, color |-> <<1, 1, 1>>,
      direction |-> direction, angle |-> Radians(angle) ] :
      direction \in { <<0, 0, 1>>, <<0, 0, 2>>, <<3, 4, 0>>, <<0, 0, 0>> },
      angle \in { 0, 180, 360 } }

SurfacePoints ==
  { <<0, 0, 5>>, <<0, 0, -5>>, <<3, 4, 0>>, <<6, 8, 0>>, <<0, 3, 4>>, <<0, 0, 0>> }

InitCone ==
  /\ indices = << >>
  /\ bvhVersion = 2
  /\ nanPolicy = "select"
  /\ bvhRoot = NoTree
  /\ flat = [nodes |-> << >>, primitives |-> << >>]
  /\ bvh = << >>
  /\ pc = "shade"
  /\ TraversalIdle
  /\ pick_result = 0
  /\ lightAdded = FALSE
  /\ EngineIdle
  /\ work = << >>
  /\ SceneIdle
  /\ wireframe = NoWireframe
  /\ merged = NotMerged
  /\ HostIdle
  /\ \E light \in ConeLights, worldPos \in SurfacePoints, z \in ZeroNormalizeOutcomes :
       radiance = [ light |-> light, worldPos |-> worldPos, zeroNormalize |-> z,
                    inCone |-> FALSE, returned |-> "none" ]

\* evaluateRadiance up to "if (!inCone) { return vec3<f32>(0.0); }"; past it
\* the BRDF terms are returned
EvaluateRadiance ==
  /\ pc = "shade"
  /\ LET inCone == InCone(radiance.light, radiance.worldPos, radiance.zeroNormalize)
     IN radiance' = [ radiance EXCEPT !.inCone = inCone,
                                      !.returned = IF inCone THEN "brdf" ELSE "zero" ]
  /\ pc' = "shaded"
  /\ UNCHANGED << geomVars, travVars, engineVars, pick_result, lightAdded, work, sceneVars,
                  wireframe, merged, hostVars >>

NextCone == EvaluateRadiance

SpecCone == InitCone /\ [][NextCone]_vars

\* the surface point lies on the half-line from the light along its direction
AlongDirection(light, worldPos) ==
  LET w == Sub(worldPos, light.position)
  IN /\ Cross(light.direction, w) = <<0, 0, 0>>
     /\ Dot(light.direction, w) > 0

\* C23: a light of 360 degrees passes the cone test at every surface point,
\* and a light of 0 degrees returns a non-zero radiance only at surface
\* points on the half-line along its direction.
FullCirclePassesZeroConeOnAxis ==
  pc = "shaded" =>
    /\ radiance.light.angle = Radians(360) => radiance.inCone
    /\ (radiance.light.angle = Radians(0) /\ radiance.returned # "zero") =>
         AlongDirection(radiance.light, radiance.worldPos)

\* ------------------------------------------------------------------------
\* packUniforms alone, over scenes below, at and above the two capacities
\* ------------------------------------------------------------------------
PackScenes ==
  { SceneOf(nbLights, nbMaterials) :
      nbLights \in 0..MaxSceneLights, nbMaterials \in 0..MaxSceneMaterials }

InitPack ==
  /\ indices = << >>
  /\ bvhVersion = 2
  /\ nanPolicy = "select"
  /\ bvhRoot = NoTree
  /\ flat = [nodes |-> << >>, primitives |-> << >>]
  /\ bvh = << >>
  /\ pc = "pack"
  /\ TraversalIdle
  /\ pick_result = 0
  /\ lightAdded = FALSE
  /\ EngineIdle
  /\ ExtIdle
  /\ work = << >>
  /\ scene \in PackScenes
  /\ nbBounces = 1
  /\ animating = FALSE
  /\ useRaytracer = FALSE
  /\ packed = NotPacked
  /\ uniformBuffer = Float32Array(UNIFORM_LENGTH).out
  /\ rendered = NoFrame
  /\ aabbIndexCount = 0

\* "device.queue.writeBuffer(uniformBuffer, 0, packUniforms())": when
\* packUniforms throws, writeBuffer is not reached
WriteUniforms ==
  /\ pc = "pack"
  /\ \E time \in {0, 1} : packed' = packUniforms(scene, nbBounces, time)
  /\ uniformBuffer' = IF packed'.threw THEN uniformBuffer ELSE packed'.out
  /\ pc' = IF packed'.threw THEN "thrown" ELSE "packed"
  /\ UNCHANGED << geomVars, travVars, engineVars, pick_result, lightAdded, work, extVars,
                  scene,
                  nbBounces, animating, useRaytracer, rendered, aabbIndexCount >>

NextPack == WriteUniforms

SpecPack == InitPack /\ [][NextPack]_vars

\* ------------------------------------------------------------------------
\* C13: a scene over a capacity is packed without an exception, with the
\* count clamped to the capacity and a diagnostic recorded, and no write of
\* a light ends in the material region or past the array.
\* ------------------------------------------------------------------------
OverCapacity == Len(scene.lights) > MAX_LIGHTS \/ Len(scene.materials) > MAX_MATERIALS

OverCapacityIsClampedAndReported ==
  (pc \in {"packed", "thrown"} /\ OverCapacity) =>
    /\ ~packed.threw
    /\ UniformNbLights(packed.out) = Min2(Len(scene.lights), MAX_LIGHTS)
    /\ UniformNbMaterials(packed.out) = Min2(Len(scene.materials), MAX_MATERIALS)
    /\ packed.diagnostics # << >>
    /\ \A k \in 1..Len(packed.log) :
         packed.log[k].what = "light" => packed.log[k].to < 20 + LIGHTS_SIZE

\* ------------------------------------------------------------------------
\* Properties of the running engine
\* ------------------------------------------------------------------------
\* what the shader reads back for a light and a material of the scene
ShaderLight(light) ==
  [ position |-> light.position, intensity |-> light.intensity, color |-> light.color,
    direction |-> light.direction, angle |-> Radians(light.angle) ]

ShaderMaterial(material) ==
  [ baseColor |-> material.diffuseAlbedo, roughness |-> material.roughness,
    fresnel |-> material.fresnel, metalness |-> material.metalness ]

\* the uniforms u carry the lights and the materials of the scene sc
UniformsShow(u, sc) ==
  /\ UniformNbLights(u) = Len(sc.lights)
  /\ UniformNbMaterials(u) = Len(sc.materials)
  /\ \A i \in 0..(Len(sc.lights) - 1) : UniformLight(u, i) = ShaderLight(sc.lights[i + 1])
  /\ \A i \in 0..(Len(sc.materials) - 1) :
       UniformMaterial(u, i) = ShaderMaterial(sc.materials[i + 1])

\* C11: no call of the engine's API, no step of the animation loop, no camera
\* movement and no operation of the device changes the geometry, the tree, the
\* flattened nodes or the node buffer built when the engine was created; and
\* every step that renders a frame submits, with that frame, uniforms that
\* carry the lights and materials of the scene as that same step left them, so
\* a material edit or a light movement shows in the next frame with no rebuild.
BVHWrittenOnceEditsShowNextFrame ==
  [][ /\ UNCHANGED geomVars
      /\ bvhRoot = buildSceneBVH(indices, bvhVersion)
      /\ frameCount' > frameCount =>
           /\ Len(queue') = Len(queue) + 1
           /\ queue'[Len(queue')].op = "frame"
           /\ UniformsShow(queue'[Len(queue')].data, scene')
      /\ (queue # << >> /\ Head(queue).op = "frame" /\ queue' = Tail(queue)) =>
           uniformBuffer' = Head(queue).data ]_vars

\* C11 witness: the device has drawn a frame whose uniforms hold the colour and
\* roughness updateMaterial(1, ..) gave to the material of object 1 and the
\* position the animation gave to the rotating light, over the tree of Init
EditedFrameDrawn ==
  /\ rendered.frame > 0
  /\ UniformMaterial(uniformBuffer, ObjectMaterialIds[2]).baseColor = <<5, 6, 7>>
  /\ UniformMaterial(uniformBuffer, ObjectMaterialIds[2]).roughness = 9
  /\ UniformLight(uniformBuffer, 3).position = <<58, 274, 280>>
  /\ bvh = PackBVH(flattenBVH(buildSceneBVH(indices, bvhVersion), bvhVersion).nodes)

\* the bounce count the frame on screen was packed with (packLightsAndMaterials,
\* "out[matOffset + 1] = nbBounces")
UniformNbBounces(u) == u[20 + LIGHTS_SIZE + 1 + 1]

\* C14: in a ray-traced frame no pixel runs more closest-hit iterations than
\* the bounce count that was current when the frame was rendered (the value of
\* the last setNbBounces before it).
IterationsWithinNbBounces ==
  rendered.raytraced =>
    \A k \in DOMAIN rendered.iterations :
      rendered.iterations[k] <= UniformNbBounces(uniformBuffer)

\* ------------------------------------------------------------------------
\* Properties of the ray-triangle test of the traversal
\* ------------------------------------------------------------------------
\* determinant, u, v and t of the ray r against triangle tri, as fractions
TriangleTerms(idx, r, tri) ==
  LET v0 == VertexOf(idx, tri, 0)
      e1 == Sub(VertexOf(idx, tri, 1), v0)
      e2 == Sub(VertexOf(idx, tri, 2), v0)
      P == Cross(r.direction, e2)
      T == Sub(r.origin, v0)
      Q == Cross(T, e1)
      det == Dot(e1, P)
  IN [ det |-> det, u |-> FDiv(Dot(T, P), det), v |-> FDiv(Dot(r.direction, Q), det),
       t |-> FDiv(Dot(e2, Q), det) ]

\* the rejections the rule lists: |det| below the epsilon, u or v outside
\* [0, 1], u + v above 1, t at or below the epsilon
RuleRejects(m) ==
  \/ BelowEps(Abs(m.det))
  \/ FLess(m.u, Fin(0, 1)) \/ FLess(Fin(1, 1), m.u)
  \/ FLess(m.v, Fin(0, 1)) \/ FLess(Fin(1, 1), m.v)
  \/ FLess(Fin(1, 1), Fin(m.u.n + m.v.n, m.u.d))
  \/ ~FLess(Fin(0, 1), m.t)

\* C22: for the ray of the running query and every triangle of the scene,
\* rayTriangleHit of the traversal reports a miss exactly when the rule
\* rejects, and otherwise a hit with the triangle's index, the barycentric
\* coordinates (1 - u - v, u, v) and the distance t.
TriangleTestFollowsRule ==
  pc = "trace" =>
    \A tri \in 0..(Len(indices) - 1) :
      LET m == TriangleTerms(indices, ray, tri)
          c == rayTriangleHit(indices, ray, tri)
      IN IF RuleRejects(m) THEN c = no_hit
         ELSE /\ c.triIndex = tri
              /\ FEq(c.t, m.t)
              /\ FEq(c.barycentricCoords[1], Fin(m.u.d - m.u.n - m.v.n, m.u.d))
              /\ FEq(c.barycentricCoords[2], m.u)
              /\ FEq(c.barycentricCoords[3], m.v)

\* ------------------------------------------------------------------------
\* C26: a call of the builder that splits hands a nonempty set to each
\* child, the two sets are disjoint and together they are the set of the
\* call; and in the tree the builder returns every triangle of the scene is
\* in exactly one leaf.
\* ------------------------------------------------------------------------
\* the triangles a leaf of the returned tree holds
LeafTriangles(leaf) ==
  IF bvhVersion = 2 THEN leaf.triangles
  ELSE IF leaf.triangleIndex < 0 THEN << >> ELSE << leaf.triangleIndex >>

RECURSIVE Concat(_, _)
Concat(leaves, i) ==
  IF i > Len(leaves) THEN << >> ELSE LeafTriangles(leaves[i]) \o Concat(leaves, i + 1)

EveryTriangleInOneLeaf ==
  LET held == Concat(TreeLeaves(bvhRoot), 1)
  IN /\ Len(held) = Len(indices)
     /\ Range(held) = 0..(Len(indices) - 1)

SplitsPartitionAndLeavesCoverOnce ==
  [][ /\ (pc = "build" /\ work # << >> /\ ~CallEmitsLeaf(Head(work), bvhVersion)) =>
           LET parent == Head(work).triangleSet
               leftSet == work'[1].triangleSet
               rightSet == work'[2].triangleSet
           IN /\ Len(work') = Len(work) + 1
              /\ leftSet # << >>
              /\ rightSet # << >>
              /\ Range(leftSet) \cap Range(rightSet) = {}
              /\ Range(leftSet) \cup Range(rightSet) = Range(parent)
              /\ Len(leftSet) + Len(rightSet) = Len(parent)
      /\ pc' = "built" => EveryTriangleInOneLeaf' ]_vars

\* C26 witness: a tree with at least three leaves has been returned for a
\* scene of three or more triangles
ThreeWaySplitBuilt ==
  /\ pc = "built"
  /\ Len(indices) >= 3
  /\ Len(TreeLeaves(bvhRoot)) >= 3
  /\ EveryTriangleInOneLeaf

\* ------------------------------------------------------------------------
\* C27: flattenBVH assigns every index 0..N-1 of the node array exactly once,
\* N being the number of nodes of the tree, and the root is at index 0; an
\* interior node stores child indices above its own index and below N, a
\* leaf stores -1 for both children.
\* ------------------------------------------------------------------------
FlattenWrites ==
  flattenNode(bvhRoot, 0, [out |-> << >>, primitives |-> << >>, writes |-> << >>],
              bvhVersion).writes

FlattenWritesEachIndexOnce ==
  Built =>
    LET N == Size(bvhRoot)
        writes == FlattenWrites
    IN /\ Len(flat.nodes) = N
       /\ Len(writes) = N
       /\ Range(writes) = 0..(N - 1)
       /\ writes[1] = 0
       /\ flat.nodes[1].isLeaf = (bvhRoot.kind = "leaf")
       /\ flat.nodes[1].minCorner = bvhRoot.boundingBox.minCorner
       /\ flat.nodes[1].maxCorner = bvhRoot.boundingBox.maxCorner
       /\ \A i \in 0..(N - 1) :
            LET n == flat.nodes[i + 1]
            IN IF n.isLeaf THEN n.leftChild = -1 /\ n.rightChild = -1
               ELSE /\ i < n.leftChild /\ n.leftChild < N
                    /\ i < n.rightChild /\ n.rightChild < N

\* C27 witness: an array of at least five nodes with an interior node that is
\* not the root has been written
FiveNodesFlattened ==
  /\ Built
  /\ Len(flat.nodes) >= 5
  /\ \E i \in 2..Len(flat.nodes) : ~flat.nodes[i].isLeaf /\ flat.nodes[i].rightChild > i

\* ------------------------------------------------------------------------
\* Properties of the debug wireframe
\* ------------------------------------------------------------------------
\* the nodes of the tree with their depths, depth first
RECURSIVE NodesWithDepth(_, _)
NodesWithDepth(node, depth) ==
  IF node.kind = "interior"
  THEN << [node |-> node, depth |-> depth] >>
         \o NodesWithDepth(node.left, depth + 1) \o NodesWithDepth(node.right, depth + 1)
  ELSE << [node |-> node, depth |-> depth] >>

BoxesOf(entries) == [ k \in 1..Len(entries) |-> entries[k].node.boundingBox ]

NodesAtDepth(d) ==
  LET AtDepth(e) == e.depth = d
  IN SelectSeq(NodesWithDepth(bvhRoot, 0), AtDepth)

NodesAtDepthAndLeavesAbove(d) ==
  LET Shown(e) == e.depth = d \/ (e.node.kind = "leaf" /\ e.depth < d)
  IN SelectSeq(NodesWithDepth(bvhRoot, 0), Shown)

\* N boxes give 8N vertices, the corners of the boxes, and 24N indices, those
\* of box k among the 8 vertices of box k
WireframeOfItsBoxes ==
  LET N == Len(wireframe.aabbs)
  IN /\ Len(wireframe.positions) = 8 * N
     /\ Len(wireframe.indices) = 24 * N
     /\ aabbIndexCount = 24 * N
     /\ \A k \in 0..(N - 1) :
          /\ \A j \in 1..24 : wireframe.indices[24 * k + j] \in (8 * k)..(8 * k + 7)
          /\ \A j \in 1..8 :
               \A a \in 1..3 :
                 wireframe.positions[8 * k + j][a]
                   \in { wireframe.aabbs[k + 1].minCorner[a], wireframe.aabbs[k + 1].maxCorner[a] }

\* C24 as stated: the boxes shown for depth d are those of the nodes at depth
\* d, one each, and the wireframe is the one of these boxes.
WireframeShowsNodesAtDepth ==
  wireframe.depth >= 0 =>
    /\ wireframe.aabbs = BoxesOf(NodesAtDepth(wireframe.depth))
    /\ WireframeOfItsBoxes

\* C24 amended: the boxes shown for depth d are those of the nodes at depth d
\* and of the leaves above depth d, one each in depth-first order, and the
\* wireframe is the one of these boxes.
WireframeShowsDepthAndLeavesAbove ==
  wireframe.depth >= 0 =>
    /\ wireframe.aabbs = BoxesOf(NodesAtDepthAndLeavesAbove(wireframe.depth))
    /\ WireframeOfItsBoxes

\* C24 witness: a wireframe of three or more boxes at depth 2 that includes
\* the box of a leaf above that depth
LeafAboveDepthShown ==
  /\ wireframe.depth = 2
  /\ Len(wireframe.aabbs) >= 3
  /\ Len(NodesAtDepth(2)) < Len(wireframe.aabbs)
  /\ Len(wireframe.indices) = 24 * Len(wireframe.aabbs)

\* ------------------------------------------------------------------------
\* rayFragmentMain alone: the bounce loop of one fragment.  Colours and
\* Fresnel terms are in thousandths, ray directions in fifths (length 5),
\* normals are unit axis vectors; the closest-hit query of each iteration is
\* an input (whether it hits, and the normal and material id resolve_hit
\* returns for the hit).
\* ------------------------------------------------------------------------
\* normalized directions ray_at can produce, and the ones reflections of them give
FragmentRays == { <<0, 0, -5>>, <<0, -3, -4>>, <<4, 0, -3>> }
\* sp.normal of a hit
HitNormals == { <<0, 0, 1>>, <<0, 1, 0>>, <<-1, 0, 0>> }
\* uniforms.materials[i].fresnel: the materials of buildScene and the default
\* material of extractSceneData ("fresnel: new Float32Array(3)")
FresnelPool == { <<0, 0, 0>>, <<50, 50, 50>>, <<900, 900, 900>>, <<1000, 710, 290>> }

Pow5(x) == x * x * x * x * x

\* schlick_fresnel(materialId, viewDir, halfVector), viewDir in fifths
schlick_fresnel(materials, materialId, viewDir, halfVector) ==
  LET f_0 == materials[materialId + 1]
      cosTheta == Max2(0, Dot(viewDir, halfVector))
      p == Pow5(Max2(0, 5 - cosTheta))
  IN [ k \in 1..3 |-> f_0[k] + ((1000 - f_0[k]) * p) \div 3125 ]

\* "all(throughput * F < vec3f(0.001))": the products are in millionths
FresnelCut(throughput, F) == \A k \in 1..3 : throughput[k] * F[k] < 1000

\* "throughput *= F"
ThroughputTimes(throughput, F) == [ k \in 1..3 |-> (throughput[k] * F[k]) \div 1000 ]

\* WGSL reflect(e1, e2) = e1 - 2 * dot(e2, e1) * e2
reflectBack(e1, e2) == [ k \in 1..3 |-> -e1[k] ]
reflect(e1, e2) == [ k \in 1..3 |-> e1[k] - 2 * Dot(e2, e1) * e2[k] ]

Negate(v) == [ k \in 1..3 |-> -v[k] ]

\* "var ray = ray_at(input.screen_pos); var throughput = vec3f(1.0)", bounce = 0
InitFragment ==
  /\ indices = << >>
  /\ bvhVersion = 2
  /\ nanPolicy = "select"
  /\ bvhRoot = NoTree
  /\ flat = [nodes |-> << >>, primitives |-> << >>]
  /\ bvh = << >>
  /\ pc = "fragment"
  /\ TraversalIdle
  /\ pick_result = 0
  /\ lightAdded = FALSE
  /\ EngineIdle
  /\ work = << >>
  /\ SceneIdle
  /\ wireframe = NoWireframe
  /\ merged = NotMerged
  /\ radiance = NoRadiance
  /\ timers = NoTimers
  /\ playground = NoPlayground
  /\ \E d \in FragmentRays, m0 \in FresnelPool, m1 \in FresnelPool :
       frag = [ bounce |-> 0, ray |-> d, throughput |-> <<1000, 1000, 1000>>,
                materials |-> << m0, m1 >>, shaded |-> 0, log |-> << >>,
                exit |-> "none" ]

\* what an iteration leaves in the log
Iteration(found, sp, F) ==
  [ found |-> found, normal |-> sp.normal, objectId |-> sp.objectId,
    rayIn |-> frag.ray, throughputIn |-> frag.throughput, F |-> F ]

\* one iteration of "for (var bounce = 0u; bounce < MAX_BOUNCES; bounce++)":
\* the body, then the increment and the test of the loop condition
BounceIteration ==
  /\ pc = "fragment"
  /\ frag.exit = "none"
  /\ frag.bounce < MAX_BOUNCES
  /\ \E found \in BOOLEAN, normal \in HitNormals, objectId \in 0..1 :
       LET sp == [normal |-> normal, objectId |-> objectId]
           viewDir == Negate(frag.ray)
           F == schlick_fresnel(frag.materials, sp.objectId, viewDir, sp.normal)
       IN IF ~found
          THEN frag' = [frag EXCEPT !.log = Append(@, Iteration(FALSE, sp, <<0, 0, 0>>)),
                                    !.exit = "miss"]
          ELSE IF FresnelCut(frag.throughput, F)
          THEN frag' = [frag EXCEPT !.shaded = @ + 1,
                                    !.log = Append(@, Iteration(TRUE, sp, F)),
                                    !.exit = "fresnel"]
          ELSE frag' = [frag EXCEPT !.shaded = @ + 1,
                                    !.log = Append(@, Iteration(TRUE, sp, F)),
                                    !.throughput = ThroughputTimes(@, F),
                                    !.ray = reflect(Negate(viewDir), sp.normal),
                                    !.bounce = @ + 1,
                                    !.exit = IF frag.bounce + 1 < MAX_BOUNCES
                                             THEN "none" ELSE "bound"]
  /\ UNCHANGED << geomVars, travVars, engineVars, pc, pick_result, lightAdded, work,
                  sceneVars, wireframe, merged, radiance, timers, playground >>

\* "return vec4f(output_color, 1.0)"
FragmentReturn ==
  /\ pc = "fragment"
  /\ frag.exit # "none"
  /\ pc' = "returned"
  /\ UNCHANGED << geomVars, travVars, engineVars, pick_result, lightAdded, auxVars >>

NextFragment ==
  \/ BounceIteration
  \/ FragmentReturn

SpecFragment == InitFragment /\ [][NextFragment]_vars

MaxChannel(v) == Max2(v[1], Max2(v[2], v[3]))

\* out is the mirror image of in about the plane of unit normal n: the
\* component along n is reversed, the component in the plane is kept
Mirrored(in, n, out) ==
  /\ Dot(out, n) = -Dot(in, n)
  /\ \A k \in 1..3 : out[k] - Dot(out, n) * n[k] = in[k] - Dot(in, n) * n[k]

\* the ray and the throughput the iteration after the k-th starts with (the
\* loop variables themselves after the last one)
RayAfter(k) == IF k = Len(frag.log) THEN frag.ray ELSE frag.log[k + 1].rayIn
ThroughputAfter(k) ==
  IF k = Len(frag.log) THEN frag.throughput ELSE frag.log[k + 1].throughputIn

\* C21: an iteration whose closest-hit query misses is the last one; an
\* iteration whose hit has max channel of throughput times the Fresnel term
\* below 0.001 is the last one and traces no further ray; any other iteration
\* multiplies the throughput by the Fresnel term, replaces the ray by its
\* mirror image about the hit's normal, and is followed by a further
\* iteration as long as fewer than MAX_BOUNCES have run.
BounceLoopStopsOrReflects ==
  \A k \in 1..Len(frag.log) :
    LET e == frag.log[k]
        product == [ c \in 1..3 |-> e.throughputIn[c] * e.F[c] ]
    IN /\ ~e.found =>
            /\ k = Len(frag.log)
            /\ frag.exit = "miss"
            /\ frag.shaded = k - 1
       /\ e.found /\ MaxChannel(product) < 1000 =>
            /\ k = Len(frag.log)
            /\ frag.exit = "fresnel"
            /\ frag.throughput = e.throughputIn
            /\ frag.ray = e.rayIn
       /\ e.found /\ MaxChannel(product) >= 1000 =>
            /\ ThroughputAfter(k) = [ c \in 1..3 |-> product[c] \div 1000 ]
            /\ Mirrored(e.rayIn, e.normal, RayAfter(k))
            /\ k = Len(frag.log) => frag.exit = (IF k < MAX_BOUNCES THEN "none" ELSE "bound")

\* C21 witness: the fragment returned after a first hit at oblique incidence
\* that reflected the ray and a second hit at which the Fresnel test stopped
\* the loop
SecondBounceCutByFresnel ==
  /\ pc = "returned"
  /\ Len(frag.log) = 2
  /\ frag.exit = "fresnel"
  /\ frag.log[1].rayIn = <<0, -3, -4>>
  /\ frag.log[2].rayIn = <<0, 3, -4>>

\* ------------------------------------------------------------------------
\* The engine's life cycle: destroy(), the animation-frame request and the
\* FPS monitor's timers, with render(), updateMaterial() and pickObject()
\* called by whoever still holds the engine object.
\* ------------------------------------------------------------------------
\* createEngine returned: "animFrameId = requestAnimationFrame(animationLoop)"
\* is pending, "let fpsTimeout = 0; let fpsMeasuring = false"
TimersCreated == [ animFrame |-> "scheduled", animFrameId |-> 1, fpsMeasuring |-> FALSE,
                   fpsTimeout |-> "none", startCount |-> 0, results |-> 0 ]

InitLifecycle ==
  /\ indices \in EngineScenes
  /\ bvhVersion \in {1, 2}
  /\ nanPolicy = "select"
  /\ bvhRoot = buildSceneBVH(indices, bvhVersion)
  /\ flat = flattenBVH(bvhRoot, bvhVersion)
  /\ bvh = PackBVH(flat.nodes)
  /\ pc = "ready"
  /\ TraversalIdle
  /\ pick_result = 0
  /\ lightAdded = FALSE
  /\ engineRef = "engine"
  /\ destroyed = FALSE
  /\ queue = << >>
  /\ pickCoordsBuffer = <<0, 0>>
  /\ readbackBuffer = [mapState |-> "unmapped", data |-> 0]
  /\ calls = [c \in CallIds |-> IdleCall]
  /\ selectedObject = -1
  /\ frameCount = 0
  /\ work = << >>
  /\ SceneIdle
  /\ wireframe = NoWireframe
  /\ merged = NotMerged
  /\ radiance = NoRadiance
  /\ frag = NoFragment
  /\ playground = NoPlayground
  /\ timers = TimersCreated

\* "if (destroyed || !fpsMeasuring) return", in measure and in its timeout
MeasureRunsUnguarded == timers.fpsMeasuring
MeasureRuns == ~destroyed /\ timers.fpsMeasuring

\* render(): "if (!destroyed) renderFrame(performance.now())"
Render ==
  /\ EngineCalled
  /\ IF destroyed
     THEN UNCHANGED << scene, packed, queue, frameCount >>
     ELSE /\ frameCount < MaxRenders
          /\ \E elapsed \in ElapsedInputs : renderFrame(scene, elapsed)
  /\ UNCHANGED << geomVars, travVars, pc, pick_result, lightAdded, work, extVars, engineRef,
                  destroyed, pickCoordsBuffer, readbackBuffer, calls, selectedObject,
                  nbBounces, animating, useRaytracer, uniformBuffer, rendered,
                  aabbIndexCount >>

\* the browser runs the requested animation frame: animationLoop, which
\* requests the next one ("animFrameId = requestAnimationFrame(animationLoop)")
AnimationFrame ==
  /\ timers.animFrame = "scheduled"
  /\ IF destroyed
     THEN /\ timers' = [timers EXCEPT !.animFrame = "none"]
          /\ UNCHANGED << scene, packed, queue, frameCount >>
     ELSE /\ frameCount < MaxRenders
          /\ \E elapsed \in ElapsedInputs : renderFrame(scene, elapsed)
          /\ timers' = [timers EXCEPT !.animFrame = "scheduled", !.animFrameId = @ + 1]
  /\ UNCHANGED << geomVars, travVars, pc, pick_result, lightAdded, work, wireframe, merged,
                  radiance, frag, playground, engineRef,
                  destroyed, pickCoordsBuffer, readbackBuffer, calls, selectedObject,
                  nbBounces, animating, useRaytracer, uniformBuffer, rendered,
                  aabbIndexCount >>

\* stopFPSMonitor(): "fpsMeasuring = false; clearTimeout(fpsTimeout)"
stopFPSMonitor(t) == [t EXCEPT !.fpsMeasuring = FALSE, !.fpsTimeout = "none"]

\* startFPSMonitor(onResult): the timer of the previous monitor is cleared,
\* "fpsTimeout = window.setTimeout(measure, 500)"
StartFPSMonitor ==
  /\ EngineCalled
  /\ timers' = [stopFPSMonitor(timers) EXCEPT !.fpsMeasuring = TRUE, !.fpsTimeout = "measure"]
  /\ UNCHANGED << geomVars, travVars, engineVars, pc, pick_result, lightAdded, work,
                  sceneVars, wireframe, merged, radiance, frag, playground >>

StopFPSMonitor ==
  /\ EngineCalled
  /\ timers' = stopFPSMonitor(timers)
  /\ UNCHANGED << geomVars, travVars, engineVars, pc, pick_result, lightAdded, work,
                  sceneVars, wireframe, merged, radiance, frag, playground >>

\* the timer of measure fires: it notes frameCount and arms the 500 ms timeout
MeasureFires ==
  /\ timers.fpsTimeout = "measure"
  /\ timers' = IF MeasureRuns
               THEN [timers EXCEPT !.startCount = frameCount, !.fpsTimeout = "window"]
               ELSE [timers EXCEPT !.fpsTimeout = "none"]
  /\ UNCHANGED << geomVars, travVars, engineVars, pc, pick_result, lightAdded, work,
                  sceneVars, wireframe, merged, radiance, frag, playground >>

\* the 500 ms timeout fires: "onResult(fps); fpsTimeout = window.setTimeout(measure, 0)"
WindowFires ==
  /\ timers.fpsTimeout = "window"
  /\ IF MeasureRuns
     THEN /\ timers.results < MaxFpsResults
          /\ timers' = [timers EXCEPT !.results = @ + 1, !.fpsTimeout = "measure"]
     ELSE timers' = [timers EXCEPT !.fpsTimeout = "none"]
  /\ UNCHANGED << geomVars, travVars, engineVars, pc, pick_result, lightAdded, work,
                  sceneVars, wireframe, merged, radiance, frag, playground >>

\* destroy(): "destroyed = true; cancelAnimationFrame(animFrameId);
\* stopFPSMonitor(); device.destroy()".  device.destroy() drops the queued
\* work and rejects a pending mapAsync.
Destroy ==
  /\ EngineCalled
  /\ destroyed' = TRUE
  /\ timers' = [stopFPSMonitor(timers) EXCEPT !.animFrame = "none"]
  /\ queue' = << >>
  /\ readbackBuffer' = [readbackBuffer EXCEPT !.mapState = "unmapped"]
  /\ calls' = [c \in CallIds |->
                 IF calls[c].state = "awaiting"
                 THEN [calls[c] EXCEPT !.state = "rejected"]
                 ELSE calls[c]]
  /\ UNCHANGED << geomVars, travVars, pc, pick_result, lightAdded, work, sceneVars,
                  wireframe, merged, radiance, frag, playground, engineRef,
                  pickCoordsBuffer, selectedObject, frameCount >>

NextLifecycle ==
  \/ Render
  \/ \E idx \in MaterialIndexInputs, rgb \in ColorInputs :
       UpdateMaterial(idx, rgb, NotGiven, NotGiven)
  \/ \E c \in CallIds : HandleCanvasClick(c, Pixels[1])
  \/ AnimationFrame
  \/ StartFPSMonitor
  \/ StopFPSMonitor
  \/ MeasureFires
  \/ WindowFires
  \/ Destroy
  \/ GpuFrame
  \/ GpuWriteCoords
  \/ GpuPick
  \/ MapResolved

SpecLifecycle == InitLifecycle /\ [][NextLifecycle]_vars

\* C28: once destroy() was called, no step of the engine submits anything to
\* the device queue, encodes a frame (packUniforms, frameCount) or calls the
\* FPS callback, and a pickObject call made then resolves to -1.
NoWorkAfterDestroy ==
  [][ destroyed =>
        /\ queue' = queue
        /\ frameCount' = frameCount
        /\ packed' = packed
        /\ timers'.results = timers.results
        /\ \A c \in CallIds :
             calls[c].state = "idle" /\ calls'[c].state # "idle" =>
               calls'[c].state = "resolved" /\ calls'[c].result = -1 ]_vars

\* C28 witness: an engine destroyed after it rendered and reported an FPS
\* value, on which a monitor was started again and its timer ran, and a
\* pickObject call returned -1
DestroyedEngineCalled ==
  /\ destroyed
  /\ frameCount >= 1
  /\ timers.results >= 1
  /\ timers.fpsMeasuring
  /\ timers.fpsTimeout = "none"
  /\ \E c \in CallIds : calls[c].state = "resolved" /\ calls[c].result = -1

\* ------------------------------------------------------------------------
\* Playground: the runs of the [selectedModel] effect on the shared canvas.
\* Each run calls createEngine, which awaits initWebGPU (requestAdapter, then
\* requestDevice, then context.configure); the browser resolves the requests
\* of different runs in any order.  A run is identified by its position in
\* playground.runs, and so are its device and its engine.
\* ------------------------------------------------------------------------
\* a run that has just started: "let cancelled = false", createEngine called,
\* initWebGPU awaiting requestAdapter
NewRun == [ stage |-> "adapter", cancelled |-> FALSE, pendingAtCancel |-> FALSE,
            wasStored |-> FALSE ]

PendingStages == { "adapter", "device", "created" }

InitPlayground ==
  /\ indices = << >>
  /\ bvhVersion = 2
  /\ nanPolicy = "select"
  /\ bvhRoot = NoTree
  /\ flat = [nodes |-> << >>, primitives |-> << >>]
  /\ bvh = << >>
  /\ pc = "mounted"
  /\ TraversalIdle
  /\ pick_result = 0
  /\ lightAdded = FALSE
  /\ EngineIdle
  /\ work = << >>
  /\ SceneIdle
  /\ wireframe = NoWireframe
  /\ merged = NotMerged
  /\ radiance = NoRadiance
  /\ frag = NoFragment
  /\ timers = NoTimers
  /\ playground = [ runs |-> << NewRun >>, engineRef |-> 0, configured |-> 0,
                    mounted |-> TRUE ]

\* the effect's cleanup: "cancelled = true; engineRef.current?.destroy();
\* engineRef.current = null", for the latest run
EffectCleanup(p) ==
  LET n == Len(p.runs)
      cancelledRuns == [ p.runs EXCEPT ![n].cancelled = TRUE,
                                       ![n].pendingAtCancel = (@ \/ p.runs[n].stage \in PendingStages) ]
  IN [ p EXCEPT !.runs = IF p.engineRef = 0 THEN cancelledRuns
                         ELSE [ cancelledRuns EXCEPT ![p.engineRef].stage = "destroyed" ],
                !.engineRef = 0 ]

\* "if (cancelled) { engine.destroy(); return; }  engineRef.current = engine"
StoresEngineAlways(run) == TRUE
StoresEngine(run) == ~run.cancelled

\* selectedModel changes: React runs the cleanup of the previous run, then
\* the effect again
SelectModel ==
  /\ playground.mounted
  /\ Len(playground.runs) < MaxEffectRuns
  /\ playground' = [ EffectCleanup(playground) EXCEPT !.runs = Append(@, NewRun) ]
  /\ UNCHANGED << geomVars, travVars, engineVars, pc, pick_result, lightAdded, work,
                  sceneVars, wireframe, merged, radiance, frag, timers >>

\* the component unmounts: the cleanup of the latest run
Unmount ==
  /\ playground.mounted
  /\ playground' = [ EffectCleanup(playground) EXCEPT !.mounted = FALSE ]
  /\ pc' = "unmounted"
  /\ UNCHANGED << geomVars, travVars, engineVars, pick_result, lightAdded, work,
                  sceneVars, wireframe, merged, radiance, frag, timers >>

\* initWebGPU of run i: requestAdapter resolves; "if (!adapter) throw" ends
\* the run in the catch block
AdapterResolved(i) ==
  /\ i \in DOMAIN playground.runs
  /\ playground.runs[i].stage = "adapter"
  /\ \E adapter \in BOOLEAN :
       playground' = [ playground EXCEPT !.runs[i].stage =
                                            IF adapter THEN "device" ELSE "failed" ]
  /\ UNCHANGED << geomVars, travVars, engineVars, pc, pick_result, lightAdded, work,
                  sceneVars, wireframe, merged, radiance, frag, timers >>

\* initWebGPU of run i: requestDevice resolves, "context.configure({ device })"
\* on the canvas's context; createEngine then builds the engine and returns
DeviceResolved(i) ==
  /\ i \in DOMAIN playground.runs
  /\ playground.runs[i].stage = "device"
  /\ playground' = [ playground EXCEPT !.configured = i, !.runs[i].stage = "created" ]
  /\ UNCHANGED << geomVars, travVars, engineVars, pc, pick_result, lightAdded, work,
                  sceneVars, wireframe, merged, radiance, frag, timers >>

\* "const engine = await createEngine(canvas, scene)" resumes in run i
EngineResolved(i) ==
  /\ i \in DOMAIN playground.runs
  /\ playground.runs[i].stage = "created"
  /\ playground' = IF StoresEngine(playground.runs[i])
                   THEN [ playground EXCEPT !.engineRef = i,
                                            !.runs[i].stage = "stored",
                                            !.runs[i].wasStored = TRUE ]
                   ELSE [ playground EXCEPT !.runs[i].stage = "destroyed" ]
  /\ UNCHANGED << geomVars, travVars, engineVars, pc, pick_result, lightAdded, work,
                  sceneVars, wireframe, merged, radiance, frag, timers >>

NextPlayground ==
  \/ SelectModel
  \/ Unmount
  \/ \E i \in 1..MaxEffectRuns : AdapterResolved(i)
  \/ \E i \in 1..MaxEffectRuns : DeviceResolved(i)
  \/ \E i \in 1..MaxEffectRuns : EngineResolved(i)

SpecPlayground == InitPlayground /\ [][NextPlayground]_vars

\* C29: the engine of a run that was cleaned up while its createEngine call
\* was pending is never stored in engineRef and is destroyed by the step
\* that resumes the run; engineRef is null or names one engine, which is
\* that of a run not cleaned up and is not destroyed.
PendingEngineDestroyedNeverStored ==
  /\ \A i \in DOMAIN playground.runs :
       playground.runs[i].pendingAtCancel =>
         /\ ~playground.runs[i].wasStored
         /\ playground.engineRef # i
         /\ playground.runs[i].stage \in PendingStages \cup {"failed", "destroyed"}
  /\ playground.engineRef # 0 =>
       /\ playground.engineRef \in DOMAIN playground.runs
       /\ playground.runs[playground.engineRef].stage = "stored"
       /\ ~playground.runs[playground.engineRef].cancelled

\* C29 witness: the first run was cleaned up by a model switch while pending,
\* its engine was destroyed when it resolved after the second run's engine
\* had been stored, and the component unmounted with a third run pending
SupersededEngineDestroyed ==
  /\ Len(playground.runs) = 3
  /\ playground.runs[1].pendingAtCancel
  /\ playground.runs[1].stage = "destroyed"
  /\ playground.runs[2].wasStored
  /\ playground.runs[3].pendingAtCancel
  /\ ~playground.mounted

\* C30: after a model switch, whenever an engine is stored in engineRef the
\* canvas context is configured with that engine's device.
ContextConfiguredForStoredEngine ==
  Len(playground.runs) >= 2 /\ playground.engineRef # 0 =>
    playground.configured = playground.engineRef

====
